---- MODULE Spec2Model ----
(***************************************************************************)
(* A model of the neex monorepo task runner: the parallel scheduler        *)
(* (neex-core/src/scheduler.rs), the workspace dependency graph            *)
(* (neex-core/src/graph.rs), the persistent result cache                   *)
(* (neex-core/src/runner.rs) and the tiered run of one script              *)
(* (neex-cli/src/main.rs).  Each subsystem has its own specification; the  *)
(* variables of the other subsystems stay at their initial value.          *)
(***************************************************************************)
EXTENDS Integers, Sequences, FiniteSets, TLC

\* ------------------------------------------------------------------------
\* Bounds of the model
\* ------------------------------------------------------------------------

\* Largest number of tasks handed to Scheduler::execute.
MaxTasks == 3

\* Largest configured concurrency (Scheduler::new(concurrency)).
MaxConcurrency == 2

\* Largest number of workspace nodes and of dependency edges of a graph.
MaxNodes == 3
MaxEdges == 3

\* Largest number of store_cached / clear_cache calls made on one cache.
MaxCalls == 3

\* The count of executions of a command stops here.
MaxExecs == 2

\* Largest number of files under the hashed root.
MaxPaths == 3

\* Largest number of statements of the parsed source file.
MaxStatements == 1

\* Largest number of tokens of a statement.
MaxTokens == 1

\* Largest number of comments of the parsed source file.
MaxComments == 2

\* Largest number of workspaces a manifest names in its dependency maps.
MaxDeps == 1

\* Largest number of calls of download in one behaviour.
MaxDownloads == 2

\* Largest number of connections the daemon serves in one behaviour.
MaxConnections == 2

\* Largest number of lines a client writes to one connection.
MaxLines == 2

\* The events the watcher holds between two polls.
MaxEvents == 3

\* Largest number of discovery events the browse task receives.
MaxDiscovery == 4

\* The number of tasks of the input without dependencies.
WideTasks == 4

VARIABLES
    \* --- scheduler.rs: Scheduler and one call of execute ---
    concurrency,    \* Scheduler.concurrency
    fail_fast,      \* Scheduler.fail_fast
    dep_map,        \* name -> set of dependency names (the input tasks)
    task_count,     \* tasks.len(): counts duplicate names too
    semaphore,      \* permits available
    chan,           \* the mpsc channel (tx, rx): sequence of TaskResult
    completed,      \* Arc<Mutex<HashSet<String>>>
    failed,         \* Arc<Mutex<bool>>
    pending_tasks,  \* names still in the pending map
    handles,        \* spawned jobs that have not taken a task: name -> counts
    job,            \* the job that took task t from pending: name -> position
    status,         \* the status computed for the thunk of t
    results,        \* Vec<TaskResult> collected by execute
    received,       \* results received so far
    pc,             \* position of execute
    \* --- graph.rs: DepGraph and the last query made on it ---
    graph_nodes,    \* DepGraph.graph nodes: NodeIndex -> WorkspaceNode.name
    graph_edges,    \* DepGraph.graph edges, in insertion order: <<from, to>>
    name_to_idx,    \* DepGraph.name_to_idx
    answer,         \* what the last query on the graph returned
    \* --- runner.rs: TaskRunner's result cache ---
    db,             \* TaskRunner.db (sled): key -> stored bytes
    cache_log,      \* the store_cached / clear_cache calls made so far
    cache_answer,   \* what the last get_cached call returned
    \* --- main.rs: run_script_tiered and what it reads ---
    fingerprint,    \* the global hash of the files now on disk
    cloud_enabled,  \* the remote cache is configured (CloudCache::try_new)
    cloud_objects,  \* the remote bucket: key -> payload
    run,            \* the run in progress: position, script, key, output
    upload,         \* the background upload spawned by the run
    tier_log,       \* the tiers the run has queried, and the execution
    inflight,       \* the lookups and the command now in progress
    outcome,        \* how the last run ended and what it printed
    execs,          \* executions of the command per fingerprint since a clear
    captured,       \* the output captured per fingerprint since a clear
    neex_ignored,   \* an ignore file keeps .neex out of the hashed files
    last_key,       \* the key of the last run, no other command or edit since
    \* --- hasher.rs: the files under the root and the hashes computed ---
    disk,           \* path -> content of the file, or NoFile
    hash_log,       \* the last two calls of global_hash
    \* --- ast_hasher.rs: one source file and the hashes computed ---
    ast_ext,        \* the extension of the file
    ast_tree,       \* the syntax tree of its content
    ast_log,        \* the last two calls of hash_ast
    \* --- main.rs: run_all_parallel ---
    manifests,      \* the dependency maps of the manifest of each workspace
    run_all,        \* where the command is, and the counts it prints
    \* --- cloud.rs: a CloudCache client ---
    enabled,        \* CloudCache::enabled
    http_requests,  \* the number of requests sent to the endpoint
    download_log,   \* the calls of download: input, response and result
    \* --- neex-daemon server.rs ---
    daemon,         \* "listening", or "exited" after a Shutdown request
    conn,           \* the connection of the client being served
    conn_log,       \* per closed connection, the lines received and written
    \* --- neex-daemon p2p.rs: the artifact server ---
    artifact_answer, \* the last GET /artifact/<key> and its response
    \* --- neex-daemon state.rs: DaemonState ---
    hashes,         \* the in-memory map path -> digest
    state_db,       \* the persistent map path -> digest (daemon.db)
    state_call,     \* the last call on the DaemonState and what it returned
    \* --- neex-daemon watcher.rs and the drain cycle of server.rs ---
    events,         \* the events of the watcher not yet polled
    drain,          \* the last drain cycle: events drained and rehashes made
    rescan_answer,  \* the last Rescan request and the index at its answer
    \* --- neex-daemon p2p.rs: PeerManager ---
    peers,          \* PeerManager::peers, service name -> PeerInfo
    discovery_log,  \* the events the browse task has received
    fetch_answer,   \* the last fetch_from_network and what it returned
    \* --- symbol_graph.rs: a SymbolGraph ---
    sym_sources,    \* the syntax trees of the files the graph was built of
    sym_graph,      \* the SymbolGraph
    sym_answer      \* the last query on the SymbolGraph and its result

schedVars == <<concurrency, fail_fast, dep_map, task_count, semaphore, chan,
               completed, failed, pending_tasks, handles, job, status,
               results, received, pc>>

graphVars == <<graph_nodes, graph_edges, name_to_idx, answer>>

cacheVars == <<db, cache_log, cache_answer>>

runVars == <<fingerprint, cloud_enabled, cloud_objects, run, upload,
             tier_log, inflight, outcome, execs, captured, neex_ignored,
             last_key>>

hasherVars == <<disk, hash_log>>

\* The subsystems added after the run: each keeps to its own variables.
astVars == <<ast_ext, ast_tree, ast_log>>

runAllVars == <<manifests, run_all>>

cloudVars == <<enabled, http_requests, download_log>>

daemonVars == <<daemon, conn, conn_log>>

artifactVars == <<artifact_answer>>

stateVars == <<hashes, state_db, state_call>>

watchVars == <<events, drain, rescan_answer>>

thirdVars == <<artifactVars, stateVars, watchVars>>

peerVars == <<peers, discovery_log, fetch_answer>>

symbolVars == <<sym_sources, sym_graph, sym_answer>>

fourthVars == <<peerVars, symbolVars>>

laterVars == <<hasherVars, astVars, runAllVars, cloudVars, daemonVars, thirdVars,
               fourthVars>>

vars == <<schedVars, graphVars, cacheVars, runVars, laterVars>>

\* What each subsystem leaves alone.
nonSchedVars == <<graphVars, cacheVars, runVars, laterVars>>

nonGraphVars == <<schedVars, cacheVars, runVars, laterVars>>

nonCacheVars == <<schedVars, graphVars, runVars, laterVars>>

nonRunVars == <<schedVars, graphVars, cache_log, cache_answer, laterVars>>

nonHasherVars == <<schedVars, graphVars, cacheVars, runVars, astVars, runAllVars,
                   cloudVars, daemonVars, thirdVars, fourthVars>>

nonAstVars == <<schedVars, graphVars, cacheVars, runVars, hasherVars,
                runAllVars, cloudVars, daemonVars, thirdVars, fourthVars>>

nonCloudVars == <<schedVars, graphVars, cacheVars, runVars, hasherVars,
                  astVars, runAllVars, daemonVars, thirdVars, fourthVars>>

nonDaemonVars == <<schedVars, graphVars, cacheVars, runVars, hasherVars,
                   astVars, runAllVars, cloudVars, thirdVars, fourthVars>>

\* ------------------------------------------------------------------------
\* scheduler.rs
\* ------------------------------------------------------------------------

\* Task names of the largest input, and a name that is never a task.
TaskNames == 1..MaxTasks
AbsentName == MaxTasks + 1

\* TaskStatus (scheduler.rs:20-26)
TaskStatus == {"Pending", "Running", "Completed", "Failed", "Cancelled"}

\* TaskResult (scheduler.rs:30-35); duration and error text are not modelled.
TaskResult(n, s) == [name |-> n, status |-> s]

\* The names of the input tasks.
Names == DOMAIN dep_map

\* The inputs of execute: n distinct names 1..n; the dependency list of a
\* task names earlier tasks, the absent name, or the task itself (the
\* smallest cycle).  A Vec with repeated names is the map of its last
\* occurrences, with tasks.len() larger than the number of names.
DepChoices(t) == SUBSET ((1..(t - 1)) \cup {AbsentName}) \cup {{t}}

RECURSIVE TaskInputs(_)
TaskInputs(n) ==
    IF n = 0 THEN {<<>>}
    ELSE {Append(d, c) : d \in TaskInputs(n - 1), c \in DepChoices(n)}

NoHandles == [check |-> 0, acquire |-> 0, cancel |-> 0]

\* Scheduler::new(concurrency).fail_fast(enabled), and the tasks of the call.
SchedInit ==
    /\ concurrency \in 0..MaxConcurrency
    /\ fail_fast \in BOOLEAN
    /\ dep_map \in UNION {TaskInputs(n) : n \in 0..MaxTasks}
    /\ task_count \in IF DOMAIN dep_map = {} THEN {0}
                      ELSE Cardinality(DOMAIN dep_map)..MaxTasks
    /\ semaphore = 0
    /\ chan = <<>>
    /\ completed = {}
    /\ failed = FALSE
    /\ pending_tasks = {}
    /\ handles = [t \in DOMAIN dep_map |-> NoHandles]
    /\ job = [t \in DOMAIN dep_map |-> "none"]
    /\ status = [t \in DOMAIN dep_map |-> "Pending"]
    /\ results = <<>>
    /\ received = 0
    /\ pc = "call"

\* No scheduler is running: execute has not been given any task.
SchedIdle ==
    /\ concurrency = 1
    /\ fail_fast = FALSE
    /\ dep_map = <<>>
    /\ task_count = 0
    /\ semaphore = 0
    /\ chan = <<>>
    /\ completed = {}
    /\ failed = FALSE
    /\ pending_tasks = {}
    /\ handles = <<>>
    /\ job = <<>>
    /\ status = <<>>
    /\ results = <<>>
    /\ received = 0
    /\ pc = "idle"

\* tokio::spawn of spawn_task for every name of the set (scheduler.rs:221).
\* A new job starts at its fail-fast check; without fail-fast the check
\* reads no shared state (scheduler.rs:223 short-circuits) and the job
\* starts at the semaphore.
Spawned(h, ready) ==
    [t \in DOMAIN h |->
        IF t \notin ready THEN h[t]
        ELSE IF fail_fast THEN [h[t] EXCEPT !.check = @ + 1]
        ELSE [h[t] EXCEPT !.acquire = @ + 1]]

\* execute up to its collector loop (scheduler.rs:87-137).
InitialReady == {t \in Names : dep_map[t] = {}}

ExecuteStart ==
    /\ pc = "call"
    /\ IF task_count = 0
       THEN /\ pc' = "returned"
            /\ UNCHANGED <<semaphore, pending_tasks, handles>>
       ELSE /\ semaphore' = concurrency
            /\ pending_tasks' = Names
            /\ handles' = Spawned(handles, InitialReady)
            /\ pc' = "recv"
    /\ UNCHANGED nonSchedVars
    /\ UNCHANGED <<concurrency, fail_fast, dep_map, task_count, chan,
                   completed, failed, job, status, results, received>>

\* A collector that goes on receiving after a failure under fail-fast.
MutAfterResultNoBreak(f, r) ==
    IF r < task_count THEN "recv" ELSE "join"

\* Where the collector goes after handling one result (scheduler.rs:139,
\* 187-191): break under fail-fast after a failure, else the loop condition.
AfterResult(f, r) ==
    IF f /\ fail_fast THEN "join"
    ELSE IF r < task_count THEN "recv" ELSE "join"

\* rx.recv() and the bookkeeping of one result (scheduler.rs:140-150).
Recv ==
    /\ pc = "recv"
    /\ chan # <<>>
    /\ LET result == Head(chan)
           f == failed \/ (result.status = "Failed" /\ fail_fast)
       IN /\ chan' = Tail(chan)
          /\ received' = received + 1
          /\ failed' = f
          /\ results' = Append(results, result)
          /\ pc' = IF result.status = "Completed"
                   THEN "dispatch"
                   ELSE AfterResult(f, received + 1)
    /\ UNCHANGED nonSchedVars
    /\ UNCHANGED <<concurrency, fail_fast, dep_map, task_count, semaphore,
                   completed, pending_tasks, handles, job, status>>

\* A ready set that asks for one completed dependency instead of all.
MutReadyTasksAny ==
    {t \in pending_tasks :
        dep_map[t] = {} \/ \E d \in dep_map[t] : d \in completed}

\* A ready set that takes a dependency that failed as satisfied.
MutReadyTasksAfterFailure ==
    {t \in pending_tasks :
        \A d \in dep_map[t] :
            d \in completed \/ (d \in Names /\ status[d] = "Failed")}

\* The ready set recomputed after a Completed result (scheduler.rs:157-170).
ReadyTasks ==
    {t \in pending_tasks : \A d \in dep_map[t] : d \in completed}

\* Spawning the ready tasks (scheduler.rs:153-185) and the break check.
Dispatch ==
    /\ pc = "dispatch"
    /\ handles' = Spawned(handles, ReadyTasks)
    /\ pc' = AfterResult(failed, received)
    /\ UNCHANGED nonSchedVars
    /\ UNCHANGED <<concurrency, fail_fast, dep_map, task_count, semaphore,
                   chan, completed, failed, pending_tasks, job, status,
                   results, received>>

\* A spawned job checks the fail-fast flag (scheduler.rs:223).
JobCheck(t) ==
    /\ handles[t].check > 0
    /\ IF failed
       THEN handles' = [handles EXCEPT ![t].check = @ - 1, ![t].cancel = @ + 1]
       ELSE handles' = [handles EXCEPT ![t].check = @ - 1, ![t].acquire = @ + 1]
    /\ UNCHANGED nonSchedVars
    /\ UNCHANGED <<concurrency, fail_fast, dep_map, task_count, semaphore,
                   chan, completed, failed, pending_tasks, job, status,
                   results, received, pc>>

\* tx.send(..).await on the bounded channel of capacity tasks.len()
\* (scheduler.rs:94): possible only while the channel has room.
CanSend == Len(chan) < task_count

\* The cancelled job publishes Cancelled and returns (scheduler.rs:224-232).
JobCancel(t) ==
    /\ handles[t].cancel > 0
    /\ CanSend
    /\ chan' = Append(chan, TaskResult(t, "Cancelled"))
    /\ handles' = [handles EXCEPT ![t].cancel = @ - 1]
    /\ UNCHANGED nonSchedVars
    /\ UNCHANGED <<concurrency, fail_fast, dep_map, task_count, semaphore,
                   completed, failed, pending_tasks, job, status, results,
                   received, pc>>

\* A job that takes its task without waiting for a permit.
MutJobAcquireNoWait(t) ==
    /\ handles[t].acquire > 0
    /\ handles' = [handles EXCEPT ![t].acquire = @ - 1]
    /\ IF t \in pending_tasks
       THEN /\ semaphore' = semaphore - 1
            /\ pending_tasks' = pending_tasks \ {t}
            /\ job' = [job EXCEPT ![t] = "running"]
            /\ status' = [status EXCEPT ![t] = "Running"]
       ELSE UNCHANGED <<semaphore, pending_tasks, job, status>>
    /\ UNCHANGED nonSchedVars
    /\ UNCHANGED <<concurrency, fail_fast, dep_map, task_count, chan,
                   completed, failed, results, received, pc>>

\* A job that runs the thunk of its task and leaves the task in the map.
MutJobAcquireKeepsTask(t) ==
    /\ handles[t].acquire > 0
    /\ semaphore > 0
    /\ handles' = [handles EXCEPT ![t].acquire = @ - 1]
    /\ IF t \in pending_tasks /\ job[t] # "running"
       THEN /\ semaphore' = semaphore - 1
            /\ job' = [job EXCEPT ![t] = "running"]
            /\ status' = [status EXCEPT ![t] = "Running"]
       ELSE UNCHANGED <<semaphore, job, status>>
    /\ UNCHANGED pending_tasks
    /\ UNCHANGED nonSchedVars
    /\ UNCHANGED <<concurrency, fail_fast, dep_map, task_count, chan,
                   completed, failed, results, received, pc>>

\* semaphore.acquire().await, then pending.remove(&task_name)
\* (scheduler.rs:236-246): the job that finds the task keeps the permit and
\* runs the thunk on a blocking worker (scheduler.rs:251); a job that finds
\* the task gone returns, which drops the permit it had just acquired.
JobAcquire(t) ==
    /\ handles[t].acquire > 0
    /\ semaphore > 0
    /\ handles' = [handles EXCEPT ![t].acquire = @ - 1]
    /\ IF t \in pending_tasks
       THEN /\ semaphore' = semaphore - 1
            /\ pending_tasks' = pending_tasks \ {t}
            /\ job' = [job EXCEPT ![t] = "running"]
            /\ status' = [status EXCEPT ![t] = "Running"]
       ELSE UNCHANGED <<semaphore, pending_tasks, job, status>>
    /\ UNCHANGED nonSchedVars
    /\ UNCHANGED <<concurrency, fail_fast, dep_map, task_count, chan,
                   completed, failed, results, received, pc>>

\* A job that records its task as completed whatever the thunk returned.
MutThunkReturnMarksFailed(t) ==
    /\ job[t] = "running"
    /\ \E s \in {"Completed", "Failed"} :
          status' = [status EXCEPT ![t] = s]
    /\ completed' = completed \cup {t}
    /\ job' = [job EXCEPT ![t] = "send"]
    /\ UNCHANGED nonSchedVars
    /\ UNCHANGED <<concurrency, fail_fast, dep_map, task_count, semaphore,
                   chan, failed, pending_tasks, handles, results, received,
                   pc>>

\* The thunk returns Ok, returns Err or panics (scheduler.rs:251-259); a
\* Completed task is recorded in the completed set (scheduler.rs:262-264).
ThunkReturn(t) ==
    /\ job[t] = "running"
    /\ \E s \in {"Completed", "Failed"} :
          /\ status' = [status EXCEPT ![t] = s]
          /\ completed' = IF s = "Completed" THEN completed \cup {t}
                          ELSE completed
    /\ job' = [job EXCEPT ![t] = "send"]
    /\ UNCHANGED nonSchedVars
    /\ UNCHANGED <<concurrency, fail_fast, dep_map, task_count, semaphore,
                   chan, failed, pending_tasks, handles, results, received,
                   pc>>

\* A job that publishes its result and keeps its permit.
MutJobSendKeepsPermit(t) ==
    /\ job[t] = "send"
    /\ CanSend
    /\ chan' = Append(chan, TaskResult(t, status[t]))
    /\ job' = [job EXCEPT ![t] = "done"]
    /\ UNCHANGED nonSchedVars
    /\ UNCHANGED <<concurrency, fail_fast, dep_map, task_count, semaphore,
                   completed, failed, pending_tasks, handles, status, results,
                   received, pc>>

\* The result is published, the job ends and its permit is dropped
\* (scheduler.rs:266-274).
JobSend(t) ==
    /\ job[t] = "send"
    /\ CanSend
    /\ chan' = Append(chan, TaskResult(t, status[t]))
    /\ job' = [job EXCEPT ![t] = "done"]
    /\ semaphore' = semaphore + 1
    /\ UNCHANGED nonSchedVars
    /\ UNCHANGED <<concurrency, fail_fast, dep_map, task_count, completed,
                   failed, pending_tasks, handles, status, results, received,
                   pc>>

\* Every spawned job has ended.
AllJoined ==
    \A t \in Names : handles[t] = NoHandles /\ job[t] \in {"none", "done"}

\* handle.await for every handle, then Ok(results) (scheduler.rs:195-207).
Join ==
    /\ pc = "join"
    /\ AllJoined
    /\ pc' = "returned"
    /\ UNCHANGED nonSchedVars
    /\ UNCHANGED <<concurrency, fail_fast, dep_map, task_count, semaphore,
                   chan, completed, failed, pending_tasks, handles, job,
                   status, results, received>>

(***************************************************************************)
(* runner.rs: TaskOutput, its JSON form, and the result cache of the       *)
(* TaskRunner.  A String is a sequence of parts; the empty String is <<>>. *)
(***************************************************************************)

\* The script the manifest defines, and a script name it does not define.
Scripts == {"build"}

MissingScript == "lint"

\* Global hashes, as <<the first 16 hex characters, the remaining ones>>.
Fingerprints == {<<"aa", "1">>, <<"aa", "2">>, <<"bb", "1">>}

\* &project_hash[..16] (main.rs:444).
First16(project_hash) == project_hash[1]

\* format!("{}:{}", script, &project_hash[..16]) (main.rs:444).
CacheKey(script, project_hash) == <<script, ":", First16(project_hash)>>

CacheKeys == {CacheKey(s, h) : s \in Scripts, h \in Fingerprints}

\* struct TaskOutput (runner.rs:20-27).
TaskOutput(stdout, stderr, exit_code, hash) ==
    [stdout |-> stdout, stderr |-> stderr, exit_code |-> exit_code,
     duration_ms |-> 1, hash |-> hash, cached_at |-> 0]

\* What TaskRunner::execute can return for the command (runner.rs:131-142):
\* the hash field is the empty String.
ExecOutputs ==
    {TaskOutput(<<"ok">>, <<>>, 0, <<>>), TaskOutput(<<>>, <<"boom">>, 1, <<>>)}

\* The TaskOutput values a caller can hand to store_cached.
TaskOutputs ==
    {[o EXCEPT !.hash = h] : o \in ExecOutputs, h \in {<<>>} \cup CacheKeys}

\* The place of a TaskOutput where there is none (Option::None).
NoOutput == TaskOutput(<<>>, <<>>, 0, <<>>)

\* db.get found nothing / no bytes.
NoBytes == <<>>

\* Bytes that are not the JSON of a TaskOutput.
Corrupt == <<"#">>

\* serde_json::to_vec(&TaskOutput) (runner.rs:80): the JSON object, field by
\* field in declaration order.
to_vec(output) ==
    <<"{", output.stdout, output.stderr, output.exit_code,
      output.duration_ms, output.hash, output.cached_at, "}">>

\* serde_json::from_slice::<TaskOutput>(&data) (runner.rs:71): the fields of
\* a well-formed object, an error for anything else.
from_slice(data) ==
    IF Len(data) = 8 /\ data[1] = "{" /\ data[8] = "}"
    THEN [ok |-> TRUE,
          value |-> [stdout |-> data[2], stderr |-> data[3],
                     exit_code |-> data[4], duration_ms |-> data[5],
                     hash |-> data[6], cached_at |-> data[7]]]
    ELSE [ok |-> FALSE, value |-> NoOutput]

\* Result<Option<TaskOutput>>.
Found(ok, some, value) == [ok |-> ok, some |-> some, value |-> value]

\* TaskRunner::get_cached (runner.rs:68-76).
get_cached(hash) ==
    IF db[hash] = NoBytes THEN Found(TRUE, FALSE, NoOutput)
    ELSE IF from_slice(db[hash]).ok
         THEN Found(TRUE, TRUE, from_slice(db[hash]).value)
         ELSE Found(FALSE, FALSE, NoOutput)

\* A store that files every entry under one and the same key.
MutStoreUnderOneKey(hash, output) ==
    [db EXCEPT ![CHOOSE k \in CacheKeys : TRUE] = to_vec(output)]

\* TaskRunner::store_cached (runner.rs:79-84).
store_cached(hash, output) == [db EXCEPT ![hash] = to_vec(output)]

\* TaskRunner::clear_cache (runner.rs:162-166).
clear_cache == [k \in CacheKeys |-> NoBytes]

NoCacheAnswer == [key |-> <<>>, found |-> Found(FALSE, FALSE, NoOutput)]

\* TaskRunner::new on a directory with no cache yet (runner.rs:44-52).
CacheIdle ==
    /\ db = clear_cache
    /\ cache_log = <<>>
    /\ cache_answer = NoCacheAnswer

StoreCachedCall(hash, output) ==
    /\ Len(cache_log) < MaxCalls
    /\ db' = store_cached(hash, output)
    /\ cache_log' = Append(cache_log,
                           [op |-> "store", key |-> hash, value |-> output])
    /\ cache_answer' = NoCacheAnswer
    /\ UNCHANGED nonCacheVars

ClearCacheCall ==
    /\ Len(cache_log) < MaxCalls
    /\ db' = clear_cache
    /\ cache_log' = Append(cache_log,
                           [op |-> "clear", key |-> <<>>, value |-> NoOutput])
    /\ cache_answer' = NoCacheAnswer
    /\ UNCHANGED nonCacheVars

GetCachedCall(hash) ==
    /\ cache_answer' = [key |-> hash, found |-> get_cached(hash)]
    /\ UNCHANGED <<db, cache_log>>
    /\ UNCHANGED nonCacheVars

CacheNext ==
    \/ \E hash \in CacheKeys, output \in TaskOutputs :
          StoreCachedCall(hash, output)
    \/ ClearCacheCall
    \/ \E hash \in CacheKeys : GetCachedCall(hash)

(***************************************************************************)
(* main.rs: run_script_tiered, one run of a script of the root manifest.   *)
(* Runs follow one another: sled::open holds the lock of the cache          *)
(* directory for the life of a TaskRunner, so no second run and no cache   *)
(* clean works on the cache while a run has it open.  Errors of the cache  *)
(* store itself (disk I/O) are left out.                                   *)
(***************************************************************************)

NoRun == [pc |-> "idle", script |-> "", key |-> <<>>, hash |-> <<>>,
          later |-> FALSE, output |-> NoOutput, prev_key |-> <<>>]

\* How a run ended: what it did, the fingerprint it had computed, whether an
\* output had been captured for that fingerprint before it began, and the
\* stdout / stderr lines it printed, with the exit code of the command.
Outcome(kind, hash, later, output) ==
    [kind |-> kind, hash |-> hash, later |-> later,
     stdout |-> output.stdout, stderr |-> output.stderr,
     exit_code |-> output.exit_code]

\* The exit status of the neex process: main returns the Result of
\* run_script_tiered (main.rs:127, 144-145), so an Err ends the process with
\* status 1 and Ok(()) with status 0.
ProcessExit(kind) == IF kind = "error" THEN 1 ELSE 0

NoOutcome == Outcome("none", <<>>, FALSE, NoOutput)

Event(tier, result) == [tier |-> tier, result |-> result]

\* No run in progress, an empty bucket, nothing executed yet.
RunIdle ==
    /\ fingerprint = <<"aa", "1">>
    /\ cloud_enabled = FALSE
    /\ cloud_objects = [k \in CacheKeys |-> NoBytes]
    /\ run = NoRun
    /\ upload = NoBytes
    /\ tier_log = <<>>
    /\ inflight = {}
    /\ outcome = NoOutcome
    /\ execs = [h \in Fingerprints |-> 0]
    /\ captured = [h \in Fingerprints |-> NoOutput]
    /\ neex_ignored = TRUE
    /\ last_key = <<>>

\* The files of the project and the remote configuration are whatever the
\* user has; the cache directory is new.
RunInit ==
    /\ fingerprint \in Fingerprints
    /\ cloud_enabled \in BOOLEAN
    /\ cloud_objects = [k \in CacheKeys |-> NoBytes]
    /\ run = NoRun
    /\ upload = NoBytes
    /\ tier_log = <<>>
    /\ inflight = {}
    /\ outcome = NoOutcome
    /\ execs = [h \in Fingerprints |-> 0]
    /\ captured = [h \in Fingerprints |-> NoOutput]
    /\ neex_ignored \in BOOLEAN
    /\ last_key = <<>>

\* The hash of the files after the runner wrote to its cache under
\* root/.neex/cache: hash_all walks hidden files too (hasher.rs:51-54), so
\* unless an ignore file excludes the directory the changed sled files give
\* another global hash.
HashAfterCacheWrite ==
    IF neex_ignored THEN {fingerprint} ELSE Fingerprints \ {fingerprint}

\* TaskRunner::new, get_script, global_hash and the cache key
\* (main.rs:427-445).  A script the manifest lacks ends the run at once.
RunStart(script) ==
    /\ run.pc = "idle"
    /\ execs[fingerprint] < MaxExecs
    /\ tier_log' = <<>>
    /\ IF script \notin Scripts
       THEN /\ outcome' = Outcome("not_found", <<>>, FALSE, NoOutput)
            /\ UNCHANGED <<run, last_key>>
       ELSE /\ outcome' = NoOutcome
            /\ run' = [pc |-> "l1", script |-> script,
                       key |-> CacheKey(script, fingerprint),
                       hash |-> fingerprint,
                       later |-> captured[fingerprint] # NoOutput,
                       output |-> NoOutput,
                       prev_key |-> last_key]
            /\ last_key' = CacheKey(script, fingerprint)
    /\ UNCHANGED <<db, fingerprint, cloud_enabled, cloud_objects, upload,
                   inflight, execs, captured, neex_ignored>>
    /\ UNCHANGED nonRunVars

\* A lookup that goes on to the later tiers whatever the local cache holds.
MutL1LookupIgnoresHit ==
    /\ run.pc = "l1"
    /\ tier_log' = Append(tier_log,
           Event("L1", IF get_cached(run.key).some THEN "hit" ELSE "miss"))
    /\ run' = [run EXCEPT !.pc = "remote"]
    /\ UNCHANGED <<db, fingerprint, cloud_enabled, cloud_objects, upload,
                   inflight, outcome, execs, captured>>
    /\ UNCHANGED <<neex_ignored, last_key>>
    /\ UNCHANGED nonRunVars

\* L1: runner.get_cached(&cache_key)? (main.rs:447-457): an error ends the
\* run, a hit is replayed and ends the run, a miss goes on.
L1Lookup ==
    /\ run.pc = "l1"
    /\ LET cached == get_cached(run.key)
       IN  IF ~cached.ok
           THEN /\ tier_log' = Append(tier_log, Event("L1", "error"))
                /\ outcome' = Outcome("error", run.hash, run.later, NoOutput)
                /\ run' = NoRun
           ELSE IF cached.some
           THEN /\ tier_log' = Append(tier_log, Event("L1", "hit"))
                /\ outcome' = Outcome("replayed", run.hash, run.later,
                                      cached.value)
                /\ run' = NoRun
           ELSE /\ tier_log' = Append(tier_log, Event("L1", "miss"))
                /\ run' = [run EXCEPT !.pc = "remote"]
                /\ UNCHANGED outcome
    /\ UNCHANGED <<db, fingerprint, cloud_enabled, cloud_objects, upload,
                   inflight, execs, captured>>
    /\ UNCHANGED <<neex_ignored, last_key>>
    /\ UNCHANGED nonRunVars

\* CloudCache::try_new() and the start of cloud.download (main.rs:463-464,
\* cloud.rs:120-131, 175-184): without a usable configuration the remote
\* tier is not queried at all.
RemoteTryNew ==
    /\ run.pc = "remote"
    /\ IF cloud_enabled
       THEN /\ run' = [run EXCEPT !.pc = "download"]
            /\ tier_log' = Append(tier_log, Event("remote", "pending"))
            /\ inflight' = inflight \cup {"remote"}
       ELSE /\ run' = [run EXCEPT !.pc = "execute"]
            /\ UNCHANGED <<tier_log, inflight>>
    /\ UNCHANGED <<db, fingerprint, cloud_enabled, cloud_objects, upload,
                   outcome, execs, captured>>
    /\ UNCHANGED <<neex_ignored, last_key>>
    /\ UNCHANGED nonRunVars

Answered(log, result) == [log EXCEPT ![Len(log)].result = result]

\* A remote tier that replays the payload without storing it locally.
MutDownloadEndNoWriteThrough ==
    /\ run.pc = "download"
    /\ inflight' = inflight \ {"remote"}
    /\ \E resp \in {"bytes", "none", "error"} :
          /\ resp = "bytes" => cloud_objects[run.key] # NoBytes
          /\ LET data == cloud_objects[run.key]
             IN  IF resp = "bytes" /\ from_slice(data).ok
                 THEN /\ tier_log' = Answered(tier_log, "hit")
                      /\ outcome' = Outcome("replayed", run.hash, run.later,
                                            from_slice(data).value)
                      /\ run' = NoRun
                      /\ UNCHANGED <<db, fingerprint>>
                 ELSE /\ tier_log' = Answered(tier_log,
                              IF resp = "bytes" THEN "unparsable"
                              ELSE IF resp = "none" THEN "miss" ELSE "error")
                      /\ run' = [run EXCEPT !.pc = "execute"]
                      /\ UNCHANGED <<db, outcome, fingerprint>>
    /\ UNCHANGED <<cloud_enabled, cloud_objects, upload, execs, captured>>
    /\ UNCHANGED <<neex_ignored, last_key>>
    /\ UNCHANGED nonRunVars

\* The answer of cloud.download(..).await (cloud.rs:186-192) and what the
\* run does with it (main.rs:464-477): a payload that parses is stored in
\* the local cache and replayed; no payload, an error or a payload that does
\* not parse lead to the execution.
DownloadEnd ==
    /\ run.pc = "download"
    /\ inflight' = inflight \ {"remote"}
    /\ \E resp \in {"bytes", "none", "error"} :
          /\ resp = "bytes" => cloud_objects[run.key] # NoBytes
          /\ LET data == cloud_objects[run.key]
             IN  IF resp = "bytes" /\ from_slice(data).ok
                 THEN /\ db' = store_cached(run.key, from_slice(data).value)
                      /\ tier_log' = Answered(tier_log, "hit")
                      /\ outcome' = Outcome("replayed", run.hash, run.later,
                                            from_slice(data).value)
                      /\ run' = NoRun
                      /\ fingerprint' \in HashAfterCacheWrite
                 ELSE /\ tier_log' = Answered(tier_log,
                              IF resp = "bytes" THEN "unparsable"
                              ELSE IF resp = "none" THEN "miss" ELSE "error")
                      /\ run' = [run EXCEPT !.pc = "execute"]
                      /\ UNCHANGED <<db, outcome, fingerprint>>
    /\ UNCHANGED <<cloud_enabled, cloud_objects, upload, execs, captured>>
    /\ UNCHANGED <<neex_ignored, last_key>>
    /\ UNCHANGED nonRunVars

\* L4: runner.execute(&command) spawns the shell (main.rs:483,
\* runner.rs:97-103): the command is now being executed.
ExecSpawn ==
    /\ run.pc = "execute"
    /\ run' = [run EXCEPT !.pc = "running"]
    /\ tier_log' = Append(tier_log, Event("exec", "started"))
    /\ inflight' = inflight \cup {"exec"}
    /\ execs' = [execs EXCEPT ![run.hash] = @ + 1]
    /\ UNCHANGED <<db, fingerprint, cloud_enabled, cloud_objects, upload,
                   outcome, captured>>
    /\ UNCHANGED <<neex_ignored, last_key>>
    /\ UNCHANGED nonRunVars

\* A run that stores the output of a command only when it exited with 0.
MutExecReturnStoresSuccessOnly ==
    /\ run.pc = "running"
    /\ inflight' = inflight \ {"exec"}
    /\ \/ /\ outcome' = Outcome("error", run.hash, run.later, NoOutput)
          /\ run' = NoRun
          /\ UNCHANGED <<db, upload, captured, fingerprint>>
       \/ \E output \in ExecOutputs :
             LET output_with_hash == [output EXCEPT !.hash = run.key]
             IN  /\ db' = IF output.exit_code = 0
                          THEN store_cached(run.key, output_with_hash)
                          ELSE db
                 /\ upload' = IF cloud_enabled THEN to_vec(output_with_hash)
                              ELSE NoBytes
                 /\ captured' = [captured EXCEPT ![run.hash] =
                                    IF @ = NoOutput THEN output ELSE @]
                 /\ run' = [run EXCEPT !.pc = "finish", !.output = output]
                 /\ fingerprint' \in HashAfterCacheWrite
                 /\ UNCHANGED outcome
    /\ UNCHANGED <<cloud_enabled, cloud_objects, tier_log, execs>>
    /\ UNCHANGED <<neex_ignored, last_key>>
    /\ UNCHANGED nonRunVars

\* execute returns (runner.rs:105-142).  Reading a line of the command's
\* output fails when the line is not valid UTF-8, and so can child.wait():
\* `?` then ends the run with nothing stored (main.rs:483).  Else the output
\* is stored under the cache key with hash = cache key (main.rs:487-489) and
\* the background upload is spawned (main.rs:492-493, cloud.rs:160-172).
ExecReturn ==
    /\ run.pc = "running"
    /\ inflight' = inflight \ {"exec"}
    /\ \/ /\ outcome' = Outcome("error", run.hash, run.later, NoOutput)
          /\ run' = NoRun
          /\ UNCHANGED <<db, upload, captured, fingerprint>>
       \/ \E output \in ExecOutputs :
             LET output_with_hash == [output EXCEPT !.hash = run.key]
             IN  /\ db' = store_cached(run.key, output_with_hash)
                 /\ upload' = IF cloud_enabled THEN to_vec(output_with_hash)
                              ELSE NoBytes
                 /\ captured' = [captured EXCEPT ![run.hash] =
                                    IF @ = NoOutput THEN output ELSE @]
                 /\ run' = [run EXCEPT !.pc = "finish", !.output = output]
                 /\ fingerprint' \in HashAfterCacheWrite
                 /\ UNCHANGED outcome
    /\ UNCHANGED <<cloud_enabled, cloud_objects, tier_log, execs>>
    /\ UNCHANGED <<neex_ignored, last_key>>
    /\ UNCHANGED nonRunVars

\* The spawned upload task puts the object before the process ends
\* (cloud.rs:140-157).
UploadDone ==
    /\ run.pc = "finish"
    /\ upload # NoBytes
    /\ cloud_objects' = [cloud_objects EXCEPT ![run.key] = upload]
    /\ upload' = NoBytes
    /\ UNCHANGED <<db, fingerprint, cloud_enabled, run, tier_log, inflight,
                   outcome, execs, captured>>
    /\ UNCHANGED <<neex_ignored, last_key>>
    /\ UNCHANGED nonRunVars

\* run_script_tiered returns Ok (main.rs:495-498) and the process ends: an
\* upload that has not been sent by then is lost with the runtime.
RunReturn ==
    /\ run.pc = "finish"
    /\ outcome' = Outcome("executed", run.hash, run.later, run.output)
    /\ run' = NoRun
    /\ upload' = NoBytes
    /\ UNCHANGED <<db, fingerprint, cloud_enabled, cloud_objects, tier_log,
                   inflight, execs, captured>>
    /\ UNCHANGED <<neex_ignored, last_key>>
    /\ UNCHANGED nonRunVars

\* Between two runs the user edits files: Hasher::global_hash
\* (hasher.rs:90-104) will give another hash.
FileChange(project_hash) ==
    /\ run.pc = "idle"
    /\ project_hash # fingerprint
    /\ fingerprint' = project_hash
    /\ last_key' = <<>>
    /\ UNCHANGED <<db, cloud_enabled, cloud_objects, run, upload, tier_log,
                   inflight, outcome, execs, captured, neex_ignored>>
    /\ UNCHANGED nonRunVars

\* cache_clean (main.rs:342-378): clear_cache on the local cache; the remote
\* bucket is left as it is.
CacheClean ==
    /\ run.pc = "idle"
    /\ db' = clear_cache
    /\ execs' = [h \in Fingerprints |-> 0]
    /\ captured' = [h \in Fingerprints |-> NoOutput]
    /\ outcome' = NoOutcome
    /\ fingerprint' \in HashAfterCacheWrite
    /\ last_key' = <<>>
    /\ UNCHANGED <<cloud_enabled, cloud_objects, run, upload, tier_log,
                   inflight, neex_ignored>>
    /\ UNCHANGED nonRunVars

\* What other machines upload under a key (cloud.rs:140-157), or any other
\* object a writer of the bucket puts there.
RemotePayloads(key) ==
    {Corrupt} \cup {to_vec([o EXCEPT !.hash = key]) : o \in ExecOutputs}

RemotePut(key, payload) ==
    /\ run.pc = "idle"
    /\ cloud_enabled
    /\ cloud_objects[key] # payload
    /\ cloud_objects' = [cloud_objects EXCEPT ![key] = payload]
    /\ UNCHANGED <<db, fingerprint, cloud_enabled, run, upload, tier_log,
                   inflight, outcome, execs, captured>>
    /\ UNCHANGED <<neex_ignored, last_key>>
    /\ UNCHANGED nonRunVars

RunNext ==
    \/ \E script \in Scripts \cup {MissingScript} : RunStart(script)
    \/ L1Lookup
    \/ RemoteTryNew
    \/ DownloadEnd
    \/ ExecSpawn
    \/ ExecReturn
    \/ UploadDone
    \/ RunReturn
    \/ \E project_hash \in Fingerprints : FileChange(project_hash)
    \/ CacheClean
    \/ \E key \in CacheKeys : \E payload \in RemotePayloads(key) :
          RemotePut(key, payload)

(***************************************************************************)
(* hasher.rs: Hasher::hash_all and global_hash over the files of the root. *)
(* A path is a number, compared as PathBuf::cmp compares paths.  A BLAKE3  *)
(* digest is modelled by its input under a tag: equal inputs give equal    *)
(* digests, and different inputs different ones.                           *)
(***************************************************************************)

Paths == 1..MaxPaths

Contents == {"x", "y"}

\* The path names no file.
NoFile == "-"

\* blake3::hash(..).to_hex().to_string() (hasher.rs:43-45, 65, 103).
Blake3Hex(bytes) == <<"blake3", bytes>>

\* The files the walk yields (hasher.rs:51-61).
WalkedPaths == {p \in Paths : disk[p] # NoFile}

\* The orders in which the walk can yield the files.
WalkOrders(S) ==
    {order \in [1..Cardinality(S) -> S] :
        \A i, j \in 1..Cardinality(S) : order[i] = order[j] => i = j}

\* struct FileHash (hasher.rs:19-24).
FileHash(path) == [path |-> path, hash |-> Blake3Hex(disk[path])]

\* Hasher::hash_all (hasher.rs:50-87): one FileHash per file, in the order
\* of the walk (the parallel map keeps the order of its input).
hash_all(order) == [i \in 1..Len(order) |-> FileHash(order[i])]

\* sorted.sort_by(|a, b| a.path.cmp(&b.path)) (hasher.rs:97-98): a stable
\* insertion of each file into the sorted prefix.
RECURSIVE sort_by_path(_)
sort_by_path(files) ==
    IF files = <<>> THEN <<>>
    ELSE LET front == sort_by_path(SubSeq(files, 1, Len(files) - 1))
             last == files[Len(files)]
             before(f) == f.path <= last.path
             after(f) == f.path > last.path
         IN  SelectSeq(front, before) \o <<last>> \o SelectSeq(front, after)

\* A global hash that feeds the digests in the order of the walk.
MutGlobalHashUnsorted(order) ==
    Blake3Hex([i \in 1..Len(order) |-> hash_all(order)[i].hash])

\* A final hasher that is fed the path of a file before its digest.
RECURSIVE MutHasherInputWithPaths(_)
MutHasherInputWithPaths(sorted) ==
    IF sorted = <<>> THEN <<>>
    ELSE <<sorted[1].path>> \o sorted[1].hash
         \o MutHasherInputWithPaths(Tail(sorted))

\* for file in sorted { hasher.update(file.hash.as_bytes()) }
\* (hasher.rs:100-102): the bytes the final hasher is fed, the digests one
\* after the other.
RECURSIVE hasher_input(_)
hasher_input(sorted) ==
    IF sorted = <<>> THEN <<>>
    ELSE sorted[1].hash \o hasher_input(Tail(sorted))

\* Hasher::global_hash (hasher.rs:90-104): the digest of the file digests
\* taken in path order.
global_hash(order) ==
    Blake3Hex(hasher_input(sort_by_path(hash_all(order))))

\* An empty root, no hash computed.
HasherIdle ==
    /\ disk = [p \in Paths |-> NoFile]
    /\ hash_log = <<>>

\* A file is created or overwritten.
WriteFile(path, content) ==
    /\ disk[path] # content
    /\ disk' = [disk EXCEPT ![path] = content]
    /\ UNCHANGED hash_log
    /\ UNCHANGED nonHasherVars

\* A file is removed.
RemoveFile(path) ==
    /\ disk[path] # NoFile
    /\ disk' = [disk EXCEPT ![path] = NoFile]
    /\ UNCHANGED hash_log
    /\ UNCHANGED nonHasherVars

\* One call of global_hash, the walk yielding the files in the given order;
\* the log keeps the last two calls.
GlobalHashCall(order) ==
    /\ hash_log' = (IF hash_log = <<>> THEN <<>>
                    ELSE <<hash_log[Len(hash_log)]>>) \o
                   <<[files |-> disk, order |-> order,
                      input |-> hasher_input(sort_by_path(hash_all(order))),
                      hash |-> global_hash(order)]>>
    /\ UNCHANGED disk
    /\ UNCHANGED nonHasherVars

HasherNext ==
    \/ \E path \in Paths, content \in Contents : WriteFile(path, content)
    \/ \E path \in Paths : RemoveFile(path)
    \/ \E order \in WalkOrders(WalkedPaths) : GlobalHashCall(order)

(***************************************************************************)
(* ast_hasher.rs: hash_ast over the syntax tree of one source file.  A     *)
(* node is a record of its kind, its text when it is a token, and its      *)
(* children; kinds and texts are sequences of parts, so that the stream    *)
(* fed to the digest is their concatenation.  The tree is a program of     *)
(* statements of tokens, with comments among the statements and among the  *)
(* tokens.  Every rule of the grammars other than the program matches at   *)
(* least one token, so a node that has children has a token below it.      *)
(***************************************************************************)

\* file_path.extension() (ast_hasher.rs:23).
Extensions == {"ts", "json"}

\* The extensions with a grammar (ast_hasher.rs:26-29).
Parseable == {"ts", "mts", "cts", "tsx", "js", "mjs", "cjs", "jsx"}

Node(kind, text, children) ==
    [kind |-> kind, text |-> text, children |-> children]

\* The comment nodes of the grammars.
CommentNodes ==
    {Node(<<"comment">>, <<"//x">>, <<>>),
     Node(<<"html_", "comment">>, <<"<!--y">>, <<>>)}

TokenTexts == {"a", "b"}

TokenNodes == {Node(<<"identifier">>, <<x>>, <<>>) : x \in TokenTexts}

\* Sequences over S of a length from lo to hi.
SeqsOf(S, lo, hi) == UNION {[1..n -> S] : n \in lo..hi}

\* Statements of one to MaxTokens tokens.
StatementNodes ==
    {Node(<<"expression_statement">>, <<>>, ts) :
        ts \in SeqsOf(TokenNodes, 1, MaxTokens)}

\* The trees of the sources without a comment.
PlainTrees ==
    {Node(<<"program">>, <<>>, ss) :
        ss \in SeqsOf(StatementNodes, 0, MaxStatements)}

\* kind.contains("comment") (ast_hasher.rs:58).
IsComment(node) == \E i \in 1..Len(node.kind) : node.kind[i] = "comment"

\* The concatenation of the sequences of a sequence.
RECURSIVE Flatten(_)
Flatten(seqs) ==
    IF seqs = <<>> THEN <<>> ELSE Head(seqs) \o Flatten(Tail(seqs))

\* &source[node.start_byte()..node.end_byte()] (ast_hasher.rs:67): the text
\* of a token, and for a node with children the texts below it.
RECURSIVE NodeText(_)
NodeText(node) ==
    IF node.children = <<>> THEN node.text
    ELSE Flatten([i \in 1..Len(node.children) |->
                     NodeText(node.children[i])])

\* A hash_node that feeds the comments as well.
RECURSIVE MutHashNodeKeepsComments(_)
MutHashNodeKeepsComments(node) ==
    node.kind \o
    (IF Len(node.children) = 0 THEN NodeText(node) ELSE <<>>) \o
    Flatten([i \in 1..Len(node.children) |->
                MutHashNodeKeepsComments(node.children[i])])

\* hash_node (ast_hasher.rs:54-76): the bytes the node and the nodes below
\* it feed to the hasher.
RECURSIVE hash_node(_)
hash_node(node) ==
    IF IsComment(node) THEN <<>>
    ELSE node.kind \o
         (IF Len(node.children) = 0 THEN NodeText(node) ELSE <<>>) \o
         Flatten([i \in 1..Len(node.children) |->
                     hash_node(node.children[i])])

\* hash_raw (ast_hasher.rs:79-83): the bytes are the content.
hash_raw(content) == [bytes |-> content, hash |-> Blake3Hex(content)]

\* hash_ast (ast_hasher.rs:22-51) on the file whose parse is the tree; the
\* content of the file is the text of the tree.
hash_ast(ext, tree) ==
    IF ext \notin Parseable THEN hash_raw(NodeText(tree))
    ELSE [bytes |-> hash_node(tree), hash |-> Blake3Hex(hash_node(tree))]

\* The tree without its comment subtrees.
RECURSIVE StripComments(_)
StripComments(node) ==
    LET kept == SelectSeq(node.children, LAMBDA c : ~IsComment(c))
    IN  Node(node.kind, node.text,
             [i \in 1..Len(kept) |-> StripComments(kept[i])])

\* The number of comments of the tree.
CommentCount(tree) ==
    Cardinality({i \in 1..Len(tree.children) : IsComment(tree.children[i])}) +
    Cardinality({<<i, j>> \in (1..Len(tree.children)) \X (1..(MaxTokens + MaxComments)) :
        /\ j <= Len(tree.children[i].children)
        /\ IsComment(tree.children[i].children[j])})

InsertAt(seq, pos, e) ==
    SubSeq(seq, 1, pos) \o <<e>> \o SubSeq(seq, pos + 1, Len(seq))

RemoveAt(seq, pos) ==
    SubSeq(seq, 1, pos - 1) \o SubSeq(seq, pos + 1, Len(seq))

\* No file parsed, no hash computed.
AstIdle ==
    /\ ast_ext = "ts"
    /\ ast_tree = Node(<<"program">>, <<>>, <<>>)
    /\ ast_log = <<>>

\* A comment is written between two statements, before the first or after
\* the last.
InsertComment(pos, c) ==
    /\ CommentCount(ast_tree) < MaxComments
    /\ pos \in 0..Len(ast_tree.children)
    /\ ast_tree' = [ast_tree EXCEPT !.children = InsertAt(@, pos, c)]
    /\ UNCHANGED <<ast_ext, ast_log>>
    /\ UNCHANGED nonAstVars

\* A comment is written inside a statement.
InsertInnerComment(s, pos, c) ==
    /\ CommentCount(ast_tree) < MaxComments
    /\ s \in 1..Len(ast_tree.children)
    /\ ~IsComment(ast_tree.children[s])
    /\ pos \in 0..Len(ast_tree.children[s].children)
    /\ ast_tree' = [ast_tree EXCEPT
                       !.children[s].children = InsertAt(@, pos, c)]
    /\ UNCHANGED <<ast_ext, ast_log>>
    /\ UNCHANGED nonAstVars

\* A comment between statements is deleted.
RemoveComment(pos) ==
    /\ pos \in 1..Len(ast_tree.children)
    /\ IsComment(ast_tree.children[pos])
    /\ ast_tree' = [ast_tree EXCEPT !.children = RemoveAt(@, pos)]
    /\ UNCHANGED <<ast_ext, ast_log>>
    /\ UNCHANGED nonAstVars

\* A comment inside a statement is deleted.
RemoveInnerComment(s, pos) ==
    /\ s \in 1..Len(ast_tree.children)
    /\ ~IsComment(ast_tree.children[s])
    /\ pos \in 1..Len(ast_tree.children[s].children)
    /\ IsComment(ast_tree.children[s].children[pos])
    /\ ast_tree' = [ast_tree EXCEPT
                       !.children[s].children = RemoveAt(@, pos)]
    /\ UNCHANGED <<ast_ext, ast_log>>
    /\ UNCHANGED nonAstVars

\* A comment between statements is rewritten.
ModifyComment(pos, c) ==
    /\ pos \in 1..Len(ast_tree.children)
    /\ IsComment(ast_tree.children[pos])
    /\ ast_tree.children[pos] # c
    /\ ast_tree' = [ast_tree EXCEPT !.children[pos] = c]
    /\ UNCHANGED <<ast_ext, ast_log>>
    /\ UNCHANGED nonAstVars

\* A token of a statement is rewritten: a change of the code.
EditToken(s, pos, x) ==
    /\ s \in 1..Len(ast_tree.children)
    /\ ~IsComment(ast_tree.children[s])
    /\ pos \in 1..Len(ast_tree.children[s].children)
    /\ ~IsComment(ast_tree.children[s].children[pos])
    /\ ast_tree.children[s].children[pos].text # <<x>>
    /\ ast_tree' = [ast_tree EXCEPT
                       !.children[s].children[pos].text = <<x>>]
    /\ UNCHANGED <<ast_ext, ast_log>>
    /\ UNCHANGED nonAstVars

\* One call of hash_ast on the file; the log keeps the last two calls, each
\* with the code of its tree and the number of its comments.
HashAstCall ==
    /\ ast_log' = (IF ast_log = <<>> THEN <<>>
                   ELSE <<ast_log[Len(ast_log)]>>) \o
                  <<[ext |-> ast_ext,
                     code |-> StripComments(ast_tree),
                     comments |-> CommentCount(ast_tree),
                     out |-> hash_ast(ast_ext, ast_tree)]>>
    /\ UNCHANGED <<ast_ext, ast_tree>>
    /\ UNCHANGED nonAstVars

AstPositions == 0..(MaxStatements + MaxTokens + MaxComments)

AstNext ==
    \/ \E pos \in AstPositions, c \in CommentNodes : InsertComment(pos, c)
    \/ \E s, pos \in AstPositions, c \in CommentNodes :
           InsertInnerComment(s, pos, c)
    \/ \E pos \in AstPositions : RemoveComment(pos)
    \/ \E s, pos \in AstPositions : RemoveInnerComment(s, pos)
    \/ \E pos \in AstPositions, c \in CommentNodes : ModifyComment(pos, c)
    \/ \E s, pos \in AstPositions, x \in TokenTexts : EditToken(s, pos, x)
    \/ HashAstCall

(***************************************************************************)
(* cloud.rs: CloudCache::download against an S3 endpoint.  The answer of   *)
(* the endpoint to a request is an input of the call: the request fails,   *)
(* or a status arrives, with a body that can be read or not.               *)
(***************************************************************************)

\* The HTTP statuses the endpoint answers with.
Statuses == {200, 206, 304, 403, 404, 500}

\* StatusCode::is_success (cloud.rs:186).
is_success(code) == code \in 200..299

Bodies == {NoBytes, Corrupt}

\* What the request of a call comes to: send() fails, or a response arrives
\* and its body can be read or not.
Responses ==
    {[sent |-> FALSE, status |-> 0, readable |-> FALSE, body |-> NoBytes]} \cup
    [sent : {TRUE}, status : Statuses, readable : BOOLEAN, body : Bodies]

\* Result<Option<Vec<u8>>>.
OkSome(data) == [ok |-> TRUE, some |-> TRUE, data |-> data]

OkNone == [ok |-> TRUE, some |-> FALSE, data |-> NoBytes]

Err == [ok |-> FALSE, some |-> FALSE, data |-> NoBytes]

\* CloudCache::download (cloud.rs:175-193), given what the request comes to.
download(self_enabled, response) ==
    IF ~self_enabled THEN OkNone
    ELSE IF ~response.sent THEN Err
    ELSE IF is_success(response.status)
         THEN IF response.readable THEN OkSome(response.body) ELSE Err
         ELSE OkNone

\* A client of an enabled configuration, no call made.
CloudIdle ==
    /\ enabled = TRUE
    /\ http_requests = 0
    /\ download_log = <<>>

\* CloudCache::from_config (cloud.rs:90-117): the client takes the enabled
\* flag of the configuration.
FromConfig(config_enabled) ==
    /\ enabled # config_enabled
    /\ enabled' = config_enabled
    /\ UNCHANGED <<http_requests, download_log>>
    /\ UNCHANGED nonCloudVars

\* One call of download; a disabled client returns before building the
\* request (cloud.rs:176-178).
DownloadCall(hash, response) ==
    /\ Len(download_log) < MaxDownloads
    /\ http_requests' = IF enabled THEN http_requests + 1 ELSE http_requests
    /\ download_log' = Append(download_log,
           [hash |-> hash, enabled |-> enabled, response |-> response,
            requests |-> IF enabled THEN 1 ELSE 0,
            result |-> download(enabled, response)])
    /\ UNCHANGED enabled
    /\ UNCHANGED nonCloudVars

CloudNext ==
    \/ \E config_enabled \in BOOLEAN : FromConfig(config_enabled)
    \/ \E hash \in CacheKeys, response \in Responses :
           DownloadCall(hash, response)

(***************************************************************************)
(* neex-daemon server.rs: the accept loop and handle_connection.  A        *)
(* request line is the JSON of an externally tagged DaemonRequest: the     *)
(* model keeps whether the line is JSON at all and the tag it carries.     *)
(***************************************************************************)

\* enum DaemonRequest (server.rs:17-32).
RequestTags ==
    {"GetHash", "GlobalHash", "GetChanged", "Rescan", "Stats", "Shutdown"}

\* A tag that is no variant of DaemonRequest.
UnknownTag == "Ping"

\* The lines a client writes.
RequestLines == [json : BOOLEAN, tag : RequestTags \cup {UnknownTag}]

\* serde_json::from_str::<DaemonRequest>(&line) (server.rs:142); the line
\* read at end of stream is empty and does not parse either.
from_str(line) ==
    IF line.json /\ line.tag \in RequestTags
    THEN [ok |-> TRUE, request |-> line.tag]
    ELSE [ok |-> FALSE, request |-> ""]

\* The line read_line returns when the client has closed its side without
\* writing (server.rs:140).
EmptyLine == [json |-> FALSE, tag |-> ""]

\* The responses the match can build for a request (server.rs:145-182);
\* global_hash of the state may fail.
ResponsesTo(request) ==
    CASE request = "GetHash" -> {"Hash"}
      [] request = "GlobalHash" -> {"GlobalHash", "Error"}
      [] request = "GetChanged" -> {"Changed"}
      [] request = "Stats" -> {"Stats"}
      [] request = "Rescan" -> {"Ok"}

NoConnection == [pc |-> "none", inbox |-> <<>>, eof |-> FALSE]

\* The daemon listens, no client is connected.
DaemonIdle ==
    /\ daemon = "listening"
    /\ conn = NoConnection
    /\ conn_log = <<>>

\* A client connects to the socket.
ClientConnect ==
    /\ daemon = "listening"
    /\ conn.pc = "none"
    /\ Len(conn_log) < MaxConnections
    /\ conn' = [NoConnection EXCEPT !.pc = "open"]
    /\ UNCHANGED <<daemon, conn_log>>
    /\ UNCHANGED nonDaemonVars

\* The client writes a line to the connection.
ClientSend(line) ==
    /\ conn.pc = "open"
    /\ ~conn.eof
    /\ Len(conn.inbox) < MaxLines
    /\ conn' = [conn EXCEPT !.inbox = Append(@, line)]
    /\ UNCHANGED <<daemon, conn_log>>
    /\ UNCHANGED nonDaemonVars

\* The client closes its writing side.
ClientShutdownWrite ==
    /\ conn.pc = "open"
    /\ ~conn.eof
    /\ conn' = [conn EXCEPT !.eof = TRUE]
    /\ UNCHANGED <<daemon, conn_log>>
    /\ UNCHANGED nonDaemonVars

\* listener.accept() and handle_connection (server.rs:93-98, 135-189): one
\* line is read and parsed; a line that does not parse ends the handler with
\* the error of `?`; Shutdown exits the process; any other request gets its
\* response line.  The stream is dropped when the handler returns, with the
\* lines that were not read.
HandleConnection ==
    /\ daemon = "listening"
    /\ conn.pc = "open"
    /\ conn.inbox # <<>> \/ conn.eof
    /\ LET line == IF conn.inbox # <<>> THEN Head(conn.inbox) ELSE EmptyLine
           parsed == from_str(line)
       IN  IF ~parsed.ok
           THEN /\ conn_log' = Append(conn_log,
                       [requests |-> conn.inbox, responses |-> <<>>])
                /\ UNCHANGED daemon
           ELSE IF parsed.request = "Shutdown"
           THEN /\ conn_log' = Append(conn_log,
                       [requests |-> conn.inbox, responses |-> <<>>])
                /\ daemon' = "exited"
           ELSE /\ \E response \in ResponsesTo(parsed.request) :
                      conn_log' = Append(conn_log,
                          [requests |-> conn.inbox,
                           responses |-> <<response>>])
                /\ UNCHANGED daemon
    /\ conn' = NoConnection
    /\ UNCHANGED nonDaemonVars

DaemonNext ==
    \/ ClientConnect
    \/ \E line \in RequestLines : ClientSend(line)
    \/ ClientShutdownWrite
    \/ HandleConnection

(***************************************************************************)
(* neex-daemon p2p.rs: the artifact server over the result cache.          *)
(***************************************************************************)

\* A key that the cache has never held.
UnknownKey == <<"test", ":", "zz">>

\* The keys a peer can ask for.
RequestKeys == CacheKeys \cup {UnknownKey}

\* state.cache_db.get(hash.as_bytes()) (p2p.rs:191): the lookup fails, finds
\* nothing, or finds the bytes stored under the key.
cache_db_get(hash, lookup_ok) ==
    IF ~lookup_ok THEN [ok |-> FALSE, some |-> FALSE, data |-> NoBytes]
    ELSE IF hash \in DOMAIN db /\ db[hash] # NoBytes
         THEN [ok |-> TRUE, some |-> TRUE, data |-> db[hash]]
         ELSE [ok |-> TRUE, some |-> FALSE, data |-> NoBytes]

\* A handler that answers 200 whatever the lookup found.
MutArtifactAlwaysOk(hash, lookup_ok) ==
    [status |-> 200, body |-> cache_db_get(hash, lookup_ok).data]

\* get_artifact (p2p.rs:187-196).
get_artifact(hash, lookup_ok) ==
    LET found == cache_db_get(hash, lookup_ok)
    IN  IF ~found.ok THEN [status |-> 500, body |-> NoBytes]
        ELSE IF found.some THEN [status |-> 200, body |-> found.data]
        ELSE [status |-> 404, body |-> NoBytes]

NoArtifactAnswer ==
    [key |-> <<>>, lookup_ok |-> TRUE, stored |-> NoBytes,
     status |-> 0, body |-> NoBytes]

\* No request has been answered.
ArtifactIdle == artifact_answer = NoArtifactAnswer

\* One GET /artifact/<key>; the answer is kept with what the store held
\* under the key when the request was served.
GetArtifactCall(hash, lookup_ok) ==
    /\ artifact_answer' =
          [key |-> hash, lookup_ok |-> lookup_ok,
           stored |-> IF hash \in DOMAIN db THEN db[hash] ELSE NoBytes,
           status |-> get_artifact(hash, lookup_ok).status,
           body |-> get_artifact(hash, lookup_ok).body]
    /\ UNCHANGED <<schedVars, graphVars, cacheVars, runVars, hasherVars,
                   astVars, runAllVars, cloudVars, daemonVars, stateVars,
                   watchVars, fourthVars>>

ArtifactNext ==
    \/ \E hash \in CacheKeys, output \in TaskOutputs :
           StoreCachedCall(hash, output)
    \/ ClearCacheCall
    \/ \E hash \in RequestKeys, lookup_ok \in BOOLEAN :
           GetArtifactCall(hash, lookup_ok)

(***************************************************************************)
(* neex-daemon state.rs: DaemonState, the digests of the files of the root *)
(* in memory (hashes) and in the persistent store (db).  A map is a        *)
(* function whose domain is the set of its keys.  Errors of the store are  *)
(* left out: the calls modelled are the successful ones.                   *)
(***************************************************************************)

\* The digests a file can have.
Digests == {Blake3Hex(c) : c \in Contents}

\* The maps from paths to digests.
HashMaps == UNION {[S -> Digests] : S \in SUBSET Paths}

\* HashMap::insert / sled insert.
map_insert(m, k, v) ==
    [x \in DOMAIN m \cup {k} |-> IF x = k THEN v ELSE m[x]]

\* HashMap::remove / sled remove.
map_remove(m, k) == [x \in DOMAIN m \ {k} |-> m[x]]

\* HashMap::get.
map_get(m, k) ==
    IF k \in DOMAIN m THEN [some |-> TRUE, value |-> m[k]]
    ELSE [some |-> FALSE, value |-> <<>>]

\* The inserts of full_scan, file after file (state.rs:77-80).
RECURSIVE insert_all(_, _)
insert_all(m, files) ==
    IF files = <<>> THEN m
    ELSE insert_all(map_insert(m, files[1].path, files[1].hash),
                    SubSeq(files, 2, Len(files)))

NoStateCall == [op |-> "none"]

\* DaemonState::new on a root without a store (state.rs:27-46).
StateIdle ==
    /\ hashes = <<>>
    /\ state_db = <<>>
    /\ state_call = NoStateCall

\* DaemonState::full_scan (state.rs:66-90): the memory map is cleared and
\* refilled from the walk; the same pairs are inserted in the store by one
\* batch.
full_scan(order) ==
    LET files == hash_all(order)
    IN  /\ hashes' = insert_all(<<>>, files)
        /\ state_db' = insert_all(state_db, files)
        /\ state_call' = [op |-> "full_scan",
                          found |-> {files[i].path : i \in 1..Len(files)}]
        /\ UNCHANGED <<schedVars, graphVars, cacheVars, runVars, hasherVars,
                       astVars, runAllVars, cloudVars, daemonVars,
                       artifactVars, watchVars, fourthVars>>

\* DaemonState::update_file (state.rs:93-106).  hash_file fails on a path
\* that names no file and the call returns the error with nothing changed.
update_file(path) ==
    /\ disk[path] # NoFile
    /\ hashes' = map_insert(hashes, path, FileHash(path).hash)
    /\ state_db' = map_insert(state_db, path, FileHash(path).hash)
    /\ state_call' = [op |-> "update_file", path |-> path]
    /\ UNCHANGED <<schedVars, graphVars, cacheVars, runVars, hasherVars,
                   astVars, runAllVars, cloudVars, daemonVars,
                   artifactVars, watchVars, fourthVars>>

\* DaemonState::remove_file (state.rs:109-118).
remove_file(path) ==
    /\ hashes' = map_remove(hashes, path)
    /\ state_db' = map_remove(state_db, path)
    /\ state_call' = [op |-> "remove_file", path |-> path]
    /\ UNCHANGED <<schedVars, graphVars, cacheVars, runVars, hasherVars,
                   astVars, runAllVars, cloudVars, daemonVars,
                   artifactVars, watchVars, fourthVars>>

\* A get_changed that also reports the paths the caller knows and the
\* index lacks.
MutGetChangedBothWays(old_hashes) ==
    {path \in DOMAIN hashes \cup DOMAIN old_hashes :
        map_get(old_hashes, path) # map_get(hashes, path)}

\* DaemonState::get_changed (state.rs:131-139): the paths of the memory map
\* that pass the filter; the order of the Vec is that of the iteration of
\* the HashMap and is not modelled.
get_changed(old_hashes) ==
    {path \in DOMAIN hashes :
        LET h == map_get(old_hashes, path)
        IN  IF h.some THEN h.value # hashes[path] ELSE TRUE}

GetChangedCall(old_hashes) ==
    /\ state_call' = [op |-> "get_changed", old |-> old_hashes,
                      result |-> get_changed(old_hashes)]
    /\ UNCHANGED <<hashes, state_db>>
    /\ UNCHANGED <<schedVars, graphVars, cacheVars, runVars, hasherVars,
                   astVars, runAllVars, cloudVars, daemonVars,
                   artifactVars, watchVars, fourthVars>>

StateNext ==
    \/ \E path \in Paths, content \in Contents : WriteFile(path, content)
    \/ \E path \in Paths : RemoveFile(path)
    \/ \E order \in WalkOrders(WalkedPaths) : full_scan(order)
    \/ \E path \in Paths : update_file(path)
    \/ \E path \in Paths : remove_file(path)
    \/ \E old_hashes \in HashMaps : GetChangedCall(old_hashes)

(***************************************************************************)
(* neex-daemon watcher.rs and server.rs: the running daemon.  The watcher  *)
(* queues one event per change of a file; every 100 ms the server polls    *)
(* the watcher and applies the changes to the state (a drain cycle), and   *)
(* between two cycles it answers requests.  A write or a removal is told   *)
(* by the notify backend as one event here; a backend that tells one       *)
(* change by several events only adds events for the same path.            *)
(***************************************************************************)

\* enum ChangeKind (watcher.rs:22-27).
ChangeKinds == {"Create", "Modify", "Delete"}

\* A path with a component that contains an ignore pattern, such as
\* dist/bundle.js (watcher.rs:43-50).
IgnoredPaths == {MaxPaths}

\* FileWatcher::should_ignore (watcher.rs:61-74).
should_ignore(path) == path \in IgnoredPaths

\* struct FileChange (watcher.rs:16-20).
FileChangeOf(path, kind) == [path |-> path, kind |-> kind]

\* FileWatcher::poll (watcher.rs:100-132): one FileChange per event whose
\* path is not ignored, in the order of the events.
RECURSIVE poll(_)
poll(queue) ==
    IF queue = <<>> THEN <<>>
    ELSE (IF should_ignore(queue[1].path) THEN <<>> ELSE <<queue[1]>>)
         \o poll(SubSeq(queue, 2, Len(queue)))

\* The body of the loop of process_file_changes (server.rs:118-131) for one
\* change, on the pair of maps of the state: update_file for Create and
\* Modify, whose error on a path that names no file is only logged, and
\* remove_file for Delete.
apply_change(st, change) ==
    IF change.kind \in {"Create", "Modify"}
    THEN IF disk[change.path] # NoFile
         THEN [hashes |-> map_insert(st.hashes, change.path,
                                     FileHash(change.path).hash),
               db |-> map_insert(st.db, change.path,
                                 FileHash(change.path).hash)]
         ELSE st
    ELSE [hashes |-> map_remove(st.hashes, change.path),
          db |-> map_remove(st.db, change.path)]

RECURSIVE apply_changes(_, _)
apply_changes(st, changes) ==
    IF changes = <<>> THEN st
    ELSE apply_changes(apply_change(st, changes[1]),
                       SubSeq(changes, 2, Len(changes)))

\* The calls of hash_file made for the changes: one per Create or Modify
\* change (server.rs:120-121, state.rs:94).
RECURSIVE rehashed_paths(_)
rehashed_paths(changes) ==
    IF changes = <<>> THEN <<>>
    ELSE (IF changes[1].kind \in {"Create", "Modify"}
          THEN <<changes[1].path>> ELSE <<>>)
         \o rehashed_paths(SubSeq(changes, 2, Len(changes)))

\* What a full scan of the files gives (state.rs:68-80).
ScanIndex == [path \in WalkedPaths |-> FileHash(path).hash]

NoDrain == [done |-> FALSE, changes |-> <<>>, rehashed |-> <<>>]

NoRescan == [response |-> ""]

\* The watcher is not in use (watcher.rs).
WatchIdle ==
    /\ events = <<>>
    /\ drain = NoDrain
    /\ rescan_answer = NoRescan

\* A file of the root is created or overwritten and the watcher queues the
\* event.
WatchedWrite(path, content) ==
    /\ Len(events) < MaxEvents
    /\ disk[path] # content
    /\ disk' = [disk EXCEPT ![path] = content]
    /\ events' = Append(events,
          FileChangeOf(path, IF disk[path] = NoFile THEN "Create"
                             ELSE "Modify"))
    /\ drain' = NoDrain
    /\ rescan_answer' = NoRescan
    /\ UNCHANGED <<hash_log, hashes, state_db, state_call>>
    /\ UNCHANGED <<schedVars, graphVars, cacheVars, runVars, astVars,
                   runAllVars, cloudVars, daemonVars, artifactVars, fourthVars>>

\* A file of the root is removed and the watcher queues the event.
WatchedRemove(path) ==
    /\ Len(events) < MaxEvents
    /\ disk[path] # NoFile
    /\ disk' = [disk EXCEPT ![path] = NoFile]
    /\ events' = Append(events, FileChangeOf(path, "Delete"))
    /\ drain' = NoDrain
    /\ rescan_answer' = NoRescan
    /\ UNCHANGED <<hash_log, hashes, state_db, state_call>>
    /\ UNCHANGED <<schedVars, graphVars, cacheVars, runVars, astVars,
                   runAllVars, cloudVars, daemonVars, artifactVars, fourthVars>>

\* process_file_changes (server.rs:115-132): one drain cycle.
process_file_changes ==
    LET changes == poll(events)
        st == apply_changes([hashes |-> hashes, db |-> state_db], changes)
    IN  /\ events' = <<>>
        /\ hashes' = st.hashes
        /\ state_db' = st.db
        /\ drain' = [done |-> TRUE, changes |-> changes,
                     rehashed |-> rehashed_paths(changes)]
        /\ rescan_answer' = NoRescan
        /\ UNCHANGED <<state_call, hasherVars>>
        /\ UNCHANGED <<schedVars, graphVars, cacheVars, runVars, astVars,
                       runAllVars, cloudVars, daemonVars, artifactVars, fourthVars>>

\* handle_connection for a Rescan request (server.rs:174-177): the state is
\* borrowed immutably and the response is built at once.
HandleRescan ==
    /\ \E response \in ResponsesTo("Rescan") :
          rescan_answer' = [response |-> response]
    /\ UNCHANGED <<events, drain, stateVars, hasherVars>>
    /\ UNCHANGED <<schedVars, graphVars, cacheVars, runVars, astVars,
                   runAllVars, cloudVars, daemonVars, artifactVars, fourthVars>>

WatchNext ==
    \/ \E path \in Paths, content \in Contents : WatchedWrite(path, content)
    \/ \E path \in Paths : WatchedRemove(path)
    \/ process_file_changes
    \/ HandleRescan

ThirdIdle == ArtifactIdle /\ StateIdle /\ WatchIdle


(***************************************************************************)
(* neex-daemon p2p.rs: PeerManager, the peers discovered by mDNS and the   *)
(* fetch of an artifact from them.  A service name is a sequence of parts, *)
(* and str::contains is the search of a part.                              *)
(***************************************************************************)

\* Uuid::new_v4().to_string()[..8] of this daemon and of the others
\* (p2p.rs:48).
LocalId == "a1b2c3d4"

RemoteIds == {"e5f6a7b8", "09c8d7e6"}

\* The full name of the service a daemon registers (p2p.rs:26-27, 65-67).
Fullname(id) == <<"neex-daemon-", id, "._neex._tcp.local.">>

\* The names the browse of the service type can tell of: the daemons of the
\* network, this one included.
ServiceNames == {Fullname(id) : id \in RemoteIds \cup {LocalId}}

\* info.get_fullname().contains(&local_id) (p2p.rs:85).
contains(name, pattern) == \E i \in 1..Len(name) : name[i] = pattern

\* The addresses of a resolved service: mdns-sd resolves a service once it
\* has at least one.
AddressLists == {<<"10.0.0.1">>, <<"10.0.0.1", "10.0.0.2">>}

\* struct PeerInfo (p2p.rs:30-35); the port is part of the address.
PeerInfo(id, addr) == [id |-> id, addr |-> addr]

\* ServiceEvent::ServiceResolved / ServiceRemoved (p2p.rs:82-104).
Resolved(name, addrs) == [kind |-> "resolved", name |-> name, addrs |-> addrs]

Removed(name) == [kind |-> "removed", name |-> name, addrs |-> <<>>]

\* The inserts of one resolved service, address after address
\* (p2p.rs:89-98).
RECURSIVE insert_addresses(_, _, _)
insert_addresses(m, name, addrs) ==
    IF addrs = <<>> THEN m
    ELSE insert_addresses(map_insert(m, name, PeerInfo(name, addrs[1])),
                          name, SubSeq(addrs, 2, Len(addrs)))

\* A browse task that also keeps the advertisement of its own daemon.
MutOnServiceEventKeepsSelf(m, event) ==
    IF event.kind = "resolved"
    THEN insert_addresses(m, event.name, event.addrs)
    ELSE map_remove(m, event.name)

\* The body of the browse task for one event (p2p.rs:82-104).
on_service_event(m, event) ==
    IF event.kind = "resolved"
    THEN IF contains(event.name, LocalId) THEN m
         ELSE insert_addresses(m, event.name, event.addrs)
    ELSE map_remove(m, event.name)

\* The bytes a peer can send as the artifact.
PeerBodies == {Corrupt, <<"artifact">>}

\* What the request to a peer comes to: the connection fails, or a response
\* arrives and its body can be read or not.
PeerResponses ==
    {[sent |-> FALSE, status |-> 0, readable |-> FALSE, body |-> NoBytes]} \cup
    [sent : {TRUE}, status : {200}, readable : {TRUE}, body : PeerBodies] \cup
    [sent : {TRUE}, status : {200}, readable : {FALSE}, body : {Corrupt}] \cup
    [sent : {TRUE}, status : {404}, readable : {TRUE}, body : {Corrupt}]

\* PeerManager::fetch_from_peer (p2p.rs:120-129).
fetch_from_peer(response) ==
    IF ~response.sent THEN [ok |-> FALSE, data |-> NoBytes]
    ELSE IF is_success(response.status)
         THEN IF response.readable THEN [ok |-> TRUE, data |-> response.body]
              ELSE [ok |-> FALSE, data |-> NoBytes]
         ELSE [ok |-> FALSE, data |-> NoBytes]

\* A fetch that asks every peer and returns what the last one gave.
RECURSIVE MutFetchLastWins(_, _, _)
MutFetchLastWins(order, responses, queried) ==
    IF order = <<>> THEN [some |-> FALSE, data |-> NoBytes, queried |-> queried]
    ELSE LET rest == MutFetchLastWins(SubSeq(order, 2, Len(order)), responses,
                                      Append(queried, order[1]))
             got == fetch_from_peer(responses[order[1]])
         IN  IF rest.some \/ ~got.ok THEN rest
             ELSE [some |-> TRUE, data |-> got.data, queried |-> rest.queried]

\* PeerManager::fetch_from_network (p2p.rs:132-146) over the peers in the
\* order get_peers gave them, with the peers asked so far.
RECURSIVE fetch_from_network(_, _, _)
fetch_from_network(order, responses, queried) ==
    IF order = <<>> THEN [some |-> FALSE, data |-> NoBytes, queried |-> queried]
    ELSE LET got == fetch_from_peer(responses[order[1]])
         IN  IF got.ok
             THEN [some |-> TRUE, data |-> got.data,
                   queried |-> Append(queried, order[1])]
             ELSE fetch_from_network(SubSeq(order, 2, Len(order)), responses,
                                     Append(queried, order[1]))

NoFetch == [op |-> "none"]

\* PeerManager::new (p2p.rs:45-51).
PeerIdle ==
    /\ peers = <<>>
    /\ discovery_log = <<>>
    /\ fetch_answer = NoFetch

\* The browse task receives one event.
ServiceEvent(event) ==
    /\ Len(discovery_log) < MaxDiscovery
    /\ peers' = on_service_event(peers, event)
    /\ discovery_log' = Append(discovery_log, event)
    /\ fetch_answer' = NoFetch
    /\ UNCHANGED <<schedVars, graphVars, cacheVars, runVars, hasherVars,
                   astVars, runAllVars, cloudVars, daemonVars, thirdVars,
                   symbolVars>>

\* One call of fetch_from_network: get_peers gives the values of the map in
\* some order, and each peer asked answers in some way.
FetchFromNetworkCall(order, responses) ==
    /\ fetch_answer' =
          [op |-> "fetch_from_network", order |-> order,
           responses |-> responses,
           result |-> fetch_from_network(order, responses, <<>>)]
    /\ UNCHANGED <<peers, discovery_log>>
    /\ UNCHANGED <<schedVars, graphVars, cacheVars, runVars, hasherVars,
                   astVars, runAllVars, cloudVars, daemonVars, thirdVars,
                   symbolVars>>

PeerNext ==
    \/ \E name \in ServiceNames, addrs \in AddressLists :
           ServiceEvent(Resolved(name, addrs))
    \/ \E name \in ServiceNames : ServiceEvent(Removed(name))
    \/ \E order \in WalkOrders(DOMAIN peers) :
           \E responses \in [DOMAIN peers -> PeerResponses] :
               FetchFromNetworkCall(order, responses)

(***************************************************************************)
(* symbols.rs and symbol_graph.rs: the exports and imports of the source   *)
(* files and the SymbolGraph built from them.  A source file is given by   *)
(* the top-level nodes of its syntax tree.  The workspace has the packages *)
(* P, with the files 1 and 2, and Q, with the file 3.                      *)
(***************************************************************************)

\* SymbolGraph.packages after discover_packages (symbol_graph.rs:58-96).
SymPackages == {"P", "Q"}

SymFiles == 1..3

\* The package whose directory the path starts with (symbol_graph.rs:236-239).
PackageOfFile(file) == IF file \in {1, 2} THEN "P" ELSE "Q"

\* The texts of the body of a declaration.
SymBodies == {"x", "y"}

\* The top-level nodes that export: `export function f..` and
\* `export default ..`.
ExportNodes ==
    [kind : {"export_statement"}, name : {"f"}, text : SymBodies] \cup
    [kind : {"export_default_declaration"}, name : {""}, text : SymBodies]

\* The top-level nodes that import: the source and the children of the
\* import clause, `import Lib from "P"`, `import { f } from "P"` and
\* `import React from "react"`.
ImportNodes ==
    {[kind |-> "import_statement", source |-> <<"\"", "P", "\"">>,
      clause |-> <<[kind |-> "identifier", text |-> "Lib"]>>],
     [kind |-> "import_statement", source |-> <<"\"", "P", "\"">>,
      clause |-> <<[kind |-> "named_imports", text |-> "f"]>>],
     [kind |-> "import_statement", source |-> <<"\"", "react", "\"">>,
      clause |-> <<[kind |-> "identifier", text |-> "React"]>>]}

\* The trees of the files: the files of P export, the file of Q imports.
ExportTrees1 ==
    {<<>>} \cup {<<n>> : n \in ExportNodes}

ExportTrees2 ==
    {<<>>} \cup {<<n>> : n \in {m \in ExportNodes : m.kind = "export_statement"}}

ImportTrees ==
    {<<>>} \cup {<<n>> : n \in ImportNodes} \cup
    {t \in ImportNodes \X ImportNodes : t[1] # t[2]}

SourceTrees ==
    {<<t1, t2, t3>> : t1 \in ExportTrees1, t2 \in ExportTrees2,
                      t3 \in ImportTrees}

\* hash_node (symbols.rs:319-324): the first 16 characters of the digest of
\* the text of the node.
symbol_hash(text) == <<"blake3[..16]", text>>

\* struct Symbol (symbols.rs:28-33); kind and line are not modelled.
Symbol(name, hash) == [name |-> name, hash |-> hash]

\* extract_exports (symbols.rs:81-122) for one top-level node.
exports_of_node(node) ==
    IF node.kind = "export_statement"
    THEN <<Symbol(node.name, symbol_hash(node.text))>>
    ELSE IF node.kind = "export_default_declaration"
    THEN <<Symbol("default", symbol_hash(node.text))>>
    ELSE <<>>

extract_exports(tree) ==
    Flatten([i \in 1..Len(tree) |-> exports_of_node(tree[i])])

\* text.trim_matches of the quotes (symbols.rs:261).
trim_quotes(source) == source[2]

\* extract_import_clause (symbols.rs:282-311): a default import gives the
\* local identifier, a named import the imported name.
import_clause_symbols(clause) == [i \in 1..Len(clause) |-> clause[i].text]

\* struct Import (symbols.rs:37-41).
imports_of_node(node) ==
    IF node.kind = "import_statement"
    THEN <<[from |-> trim_quotes(node.source),
            symbols |-> import_clause_symbols(node.clause)]>>
    ELSE <<>>

\* extract_imports (symbols.rs:246-279).
extract_imports(tree) ==
    Flatten([i \in 1..Len(tree) |-> imports_of_node(tree[i])])

\* format!("{}:{}", package, symbol) (symbol_graph.rs:209, 242).
SymbolId(package, name) == <<package, ":", name>>

\* The ids under which process_imports files the file (symbol_graph.rs:
\* 202-219): the imports from a known package, symbol by symbol.
consumed_ids(tree) ==
    UNION {{SymbolId(imp.from, imp.symbols[j]) : j \in 1..Len(imp.symbols)} :
              imp \in {i \in {extract_imports(tree)[k] :
                                     k \in 1..Len(extract_imports(tree))} :
                           i.from \in SymPackages}}

\* SymbolGraph::build (symbol_graph.rs:42-55): the exports of every file and
\* the consumers of every id; order is the order in which the HashMap of
\* the exports yields its files.
build(trees, order) ==
    [packages |-> SymPackages,
     exports |-> [file \in SymFiles |-> extract_exports(trees[file])],
     consumers |->
        [id \in UNION {consumed_ids(trees[file]) : file \in SymFiles} |->
            {file \in SymFiles : id \in consumed_ids(trees[file])}],
     order |-> order]

\* SymbolGraph::get_all_symbols (symbol_graph.rs:231-248).
get_all_symbols(g) ==
    Flatten([i \in 1..Len(g.order) |->
        [j \in 1..Len(g.exports[g.order[i]]) |->
            [id |-> SymbolId(PackageOfFile(g.order[i]),
                             g.exports[g.order[i]][j].name),
             hash |-> g.exports[g.order[i]][j].hash]]])

\* A comparison that looks at the ids only.
MutGetChangedIgnoresHash(g, cache) ==
    LET changed(s) == ~map_get(cache, s.id).some
        kept == SelectSeq(get_all_symbols(g), changed)
    IN  [i \in 1..Len(kept) |-> kept[i].id]

\* SymbolGraph::get_changed_symbols (symbol_graph.rs:251-262).
get_changed_symbols(g, cache) ==
    LET changed(s) == ~(map_get(cache, s.id).some
                        /\ map_get(cache, s.id).value = s.hash)
        kept == SelectSeq(get_all_symbols(g), changed)
    IN  [i \in 1..Len(kept) |-> kept[i].id]

\* SymbolGraph::get_affected_files (symbol_graph.rs:265-275).
get_affected_files(g, changed) ==
    UNION {g.consumers[id] : id \in changed \cap DOMAIN g.consumers}

\* SymbolGraph::to_cache (symbol_graph.rs:278-286).
RECURSIVE insert_symbols(_, _)
insert_symbols(m, symbols) ==
    IF symbols = <<>> THEN m
    ELSE insert_symbols(map_insert(m, symbols[1].id, symbols[1].hash),
                        SubSeq(symbols, 2, Len(symbols)))

to_cache(g) == insert_symbols(<<>>, get_all_symbols(g))

\* The ids a caller can know of: those of P, and one of a symbol that P no
\* longer exports.
KnownIds ==
    {SymbolId("P", "f"), SymbolId("P", "default"), SymbolId("P", "Lib"),
     SymbolId("P", "gone")}

\* The SymbolCache values a caller can hold.
SymbolCaches ==
    UNION {[S -> {symbol_hash(b) : b \in SymBodies}] :
              S \in SUBSET (KnownIds \ {SymbolId("P", "Lib")})}

NoSymbolCall == [op |-> "none"]

\* No graph has been built.
SymbolIdle ==
    /\ sym_sources = <<>>
    /\ sym_graph = <<>>
    /\ sym_answer = NoSymbolCall

\* SymbolGraph::build on the files of the root: the constructor of the one
\* graph of a behaviour.
BuildCall(trees, order) ==
    /\ sym_graph = <<>>
    /\ sym_sources' = trees
    /\ sym_graph' = build(trees, order)
    /\ sym_answer' = NoSymbolCall
    /\ UNCHANGED <<schedVars, graphVars, cacheVars, runVars, hasherVars,
                   astVars, runAllVars, cloudVars, daemonVars, thirdVars,
                   peerVars>>

GetChangedSymbolsCall(cache) ==
    /\ sym_graph # <<>>
    /\ sym_answer' = [op |-> "get_changed_symbols", cache |-> cache,
                      result |-> get_changed_symbols(sym_graph, cache)]
    /\ UNCHANGED <<sym_sources, sym_graph>>
    /\ UNCHANGED <<schedVars, graphVars, cacheVars, runVars, hasherVars,
                   astVars, runAllVars, cloudVars, daemonVars, thirdVars,
                   peerVars>>

\* The cache made of the graph is compared with the graph.
CompareWithOwnCache ==
    /\ sym_graph # <<>>
    /\ sym_answer' = [op |-> "get_changed_symbols",
                      cache |-> to_cache(sym_graph),
                      result |-> get_changed_symbols(sym_graph,
                                                     to_cache(sym_graph))]
    /\ UNCHANGED <<sym_sources, sym_graph>>
    /\ UNCHANGED <<schedVars, graphVars, cacheVars, runVars, hasherVars,
                   astVars, runAllVars, cloudVars, daemonVars, thirdVars,
                   peerVars>>

GetAffectedFilesCall(changed) ==
    /\ sym_graph # <<>>
    /\ sym_answer' = [op |-> "get_affected_files", changed |-> changed,
                      result |-> get_affected_files(sym_graph, changed)]
    /\ UNCHANGED <<sym_sources, sym_graph>>
    /\ UNCHANGED <<schedVars, graphVars, cacheVars, runVars, hasherVars,
                   astVars, runAllVars, cloudVars, daemonVars, thirdVars,
                   peerVars>>

SymbolNext ==
    \/ \E trees \in SourceTrees, order \in WalkOrders(SymFiles) :
           BuildCall(trees, order)
    \/ \E cache \in SymbolCaches : GetChangedSymbolsCall(cache)
    \/ CompareWithOwnCache
    \/ \E changed \in SUBSET KnownIds : GetAffectedFilesCall(changed)

FourthIdle == PeerIdle /\ SymbolIdle

\* What a query on the graph returned: the operation, its argument, whether
\* it answered true / Ok / Some, and the nodes it returned.
Answer(op, arg, ok, list) == [op |-> op, arg |-> arg, ok |-> ok, list |-> list]

\* No query has been made.
NoAnswer == Answer("none", "", FALSE, <<>>)

\* DepGraph::new() (graph.rs:73-79): the empty graph.
GraphIdle ==
    /\ graph_nodes = <<>>
    /\ graph_edges = <<>>
    /\ name_to_idx = <<>>
    /\ answer = NoAnswer

SchedNext ==
    \/ ExecuteStart
    \/ Recv
    \/ Dispatch
    \/ Join
    \/ \E t \in Names : JobCheck(t)
    \/ \E t \in Names : JobCancel(t)
    \/ \E t \in Names : JobAcquire(t)
    \/ \E t \in Names : ThunkReturn(t)
    \/ \E t \in Names : JobSend(t)

\* A scheduler about to execute its tasks; nothing else is in use.
NoRunAll == [pc |-> "idle", succeeded |-> 0, failed |-> 0]

\* No run-all has been asked for.
RunAllIdle ==
    /\ manifests = <<>>
    /\ run_all = NoRunAll

\* The subsystems added after the run are not in use.
LaterIdle == HasherIdle /\ AstIdle /\ RunAllIdle /\ CloudIdle /\ DaemonIdle /\ ThirdIdle /\ FourthIdle

SchedStart == SchedInit /\ GraphIdle /\ CacheIdle /\ RunIdle /\ LaterIdle

SchedSpec == SchedStart /\ [][SchedNext]_vars

\* The scheduling of the tokio runtime: every runnable future is polled
\* again, a thunk handed to spawn_blocking returns, the semaphore serves its
\* waiters in turn (strong fairness: a permit that keeps coming back is
\* eventually given to each waiter).
SchedFairness ==
    /\ WF_vars(ExecuteStart)
    /\ WF_vars(Recv)
    /\ WF_vars(Dispatch)
    /\ WF_vars(Join)
    /\ \A t \in TaskNames :
          /\ WF_vars(t \in Names /\ JobCheck(t))
          /\ WF_vars(t \in Names /\ JobCancel(t))
          /\ SF_vars(t \in Names /\ JobAcquire(t))
          /\ WF_vars(t \in Names /\ ThunkReturn(t))
          /\ WF_vars(t \in Names /\ JobSend(t))

SchedFairSpec == SchedStart /\ [][SchedNext]_vars /\ SchedFairness

\* ------------------------------------------------------------------------
\* Properties of the scheduler
\* ------------------------------------------------------------------------

\* The tasks that t depends on, directly or through other tasks.
RECURSIVE TransDeps(_, _)
TransDeps(t, seen) ==
    LET direct == (dep_map[t] \cap Names) \ seen
    IN direct \cup
       UNION {TransDeps(d, seen \cup direct) : d \in direct}

\* The thunk of t has started (it is running or has returned).
Started(t) == status[t] # "Pending"

\* The tasks whose thunk is executing on a blocking worker.
Executing == {t \in Names : job[t] = "running"}

\* The entries of the returned results with the given status.
ResultsWith(s) == {i \in 1..Len(results) : results[i].status = s}

\* C1 (scheduler precedence): the thunk of a task has not started unless
\* every dependency of the task that is present in the input has returned
\* with status Completed.
C1_Precedence ==
    \A t \in Names :
        Started(t) => \A d \in dep_map[t] \cap Names : status[d] = "Completed"

\* A task with two present dependencies is running.
C1_Witness ==
    \E t \in Names :
        /\ job[t] = "running"
        /\ Cardinality(dep_map[t] \cap Names) >= 2

\* C2 (concurrency bound): the number of thunks executing never exceeds the
\* configured concurrency.
C2_ConcurrencyBound == Cardinality(Executing) <= concurrency

\* The bound is reached with two thunks executing while a third job waits
\* for a permit.
C2_Witness ==
    /\ Cardinality(Executing) = concurrency
    /\ concurrency >= 2
    /\ \E t \in Names : handles[t].acquire > 0 /\ t \in pending_tasks

\* No task that depends on a failed task has started.
DependentsOfFailedNeverRun ==
    \A u \in Names :
        \A t \in TransDeps(u, {}) : status[t] = "Failed" => ~Started(u)

DepsPresentAcyclic ==
    /\ \A t \in Names : dep_map[t] \subseteq Names
    /\ \A t \in Names : t \notin TransDeps(t, {})

SomeThunkFailed == \E t \in Names : status[t] = "Failed"

\* execute has returned exactly one result per input task, each Completed.
ReturnedAllCompleted ==
    /\ pc = "returned"
    /\ Len(results) = Cardinality(Names)
    /\ \A t \in Names :
          Cardinality({i \in 1..Len(results) :
                          results[i] = TaskResult(t, "Completed")}) = 1

\* C4 as stated: when every thunk succeeds and the dependencies are acyclic
\* and present, execute eventually returns one Completed result per task.
C4_Original ==
    DepsPresentAcyclic => <>(SomeThunkFailed \/ ReturnedAllCompleted)

\* C4 (amended): the same, for a scheduler whose concurrency is at least 1
\* and an input whose task names are pairwise distinct.
C4_Terminates ==
    (DepsPresentAcyclic /\ concurrency >= 1
        /\ task_count = Cardinality(Names))
    => <>(SomeThunkFailed \/ ReturnedAllCompleted)

\* execute has returned the Completed results of three tasks, one of which
\* depends on the two others.
C4_Witness ==
    /\ ReturnedAllCompleted
    /\ \E t \in Names : Cardinality(dep_map[t]) >= 2

(***************************************************************************)
(* graph.rs: DepGraph, a petgraph DiGraph whose edge dependent -> dependency*)
(* says that the dependent needs the dependency built first.  NodeIndex i  *)
(* of the source is index i + 1 here.                                      *)
(***************************************************************************)

PackageNames == {"utils", "ui", "web"}

NodeIndices == 1..Len(graph_nodes)

Reverse(s) == [i \in 1..Len(s) |-> s[Len(s) + 1 - i]]

Range(s) == {s[i] : i \in 1..Len(s)}

\* DepGraph::package_count / edge_count (graph.rs:273-280).
package_count == Len(graph_nodes)

edge_count == Len(graph_edges)

\* petgraph Graph::neighbors_directed: the other endpoints of the edges of
\* idx in the given direction, the most recently added edge first.
neighbors_directed(idx, dir) ==
    LET mine(e) == IF dir = "Outgoing" THEN e[1] = idx ELSE e[2] = idx
        es == SelectSeq(Reverse(graph_edges), mine)
    IN  [i \in 1..Len(es) |-> IF dir = "Outgoing" THEN es[i][2] ELSE es[i][1]]

\* A cycle detection that looks only at edges between two different nodes.
RECURSIVE MutReachNoSelf(_, _)
MutReachNoSelf(frontier, seen) ==
    LET next == {e[2] : e \in {x \in Range(graph_edges) :
                                  x[1] \in frontier /\ x[1] # x[2]}} \ seen
    IN  IF next = {} THEN seen ELSE MutReachNoSelf(next, seen \cup next)

MutCyclicIgnoresSelfLoops == \E n \in NodeIndices : n \in MutReachNoSelf({n}, {})

\* petgraph depth_first_search from one root with the visitor of
\* is_cyclic_directed: a BackEdge event (an edge to a discovered, unfinished
\* node) stops the search with Err.
RECURSIVE dfs_visitor(_, _)
RECURSIVE dfs_neighbors(_, _, _)
dfs_neighbors(u, succs, st) ==
    IF succs = <<>> \/ st.back THEN st
    ELSE LET v == Head(succs)
             st2 == IF v \notin st.discovered THEN dfs_visitor(v, st)
                    ELSE IF v \notin st.finished
                         THEN [st EXCEPT !.back = TRUE]
                         ELSE st
         IN  dfs_neighbors(u, Tail(succs), st2)

dfs_visitor(u, st) ==
    LET st1 == [st EXCEPT !.discovered = @ \cup {u}]
        st2 == dfs_neighbors(u, neighbors_directed(u, "Outgoing"), st1)
    IN  IF st2.back THEN st2 ELSE [st2 EXCEPT !.finished = @ \cup {u}]

RECURSIVE depth_first_search(_, _)
depth_first_search(i, st) ==
    IF i > Len(graph_nodes) \/ st.back THEN st
    ELSE depth_first_search(i + 1,
            IF i \in st.discovered THEN st ELSE dfs_visitor(i, st))

\* petgraph::algo::is_cyclic_directed.
is_cyclic_directed ==
    depth_first_search(1, [discovered |-> {}, finished |-> {}, back |-> FALSE]).back

\* DepGraph::has_cycle (graph.rs:213-215).
has_cycle == is_cyclic_directed

\* petgraph::algo::toposort, first pass: the inner loop of the depth-first
\* search that fills finish_stack; a self-loop is reported at once.
RECURSIVE toposort_dfs(_)
toposort_dfs(st) ==
    IF st.stack = <<>> \/ st.err THEN st
    ELSE LET nx == st.stack[Len(st.stack)]
         IN  IF nx \notin st.discovered
             THEN LET succs == neighbors_directed(nx, "Outgoing")
                      fresh(v) == v \notin st.discovered /\ v # nx
                  IN  IF nx \in Range(succs)
                      THEN [st EXCEPT !.err = TRUE]
                      ELSE toposort_dfs([st EXCEPT
                              !.discovered = @ \cup {nx},
                              !.stack = @ \o SelectSeq(succs, fresh)])
             ELSE toposort_dfs([st EXCEPT
                      !.stack = SubSeq(@, 1, Len(@) - 1),
                      !.finished = @ \cup {nx},
                      !.finish_stack = IF nx \in st.finished THEN @
                                       ELSE Append(@, nx)])

\* The outer loop: the roots are taken in reverse index order.
RECURSIVE toposort_roots(_, _)
toposort_roots(i, st) ==
    IF i = 0 \/ st.err THEN st
    ELSE toposort_roots(i - 1,
            IF i \in st.discovered THEN st
            ELSE toposort_dfs([st EXCEPT !.stack = <<i>>]))

\* Dfs::next on the reversed graph: pop to the first undiscovered node, push
\* its undiscovered predecessors, yield it (0 when the stack runs out).
RECURSIVE dfs_next(_)
dfs_next(st) ==
    IF st.stack = <<>> THEN [st EXCEPT !.node = 0]
    ELSE LET node == st.stack[Len(st.stack)]
             rest == SubSeq(st.stack, 1, Len(st.stack) - 1)
         IN  IF node \notin st.discovered
             THEN LET disc == st.discovered \cup {node}
                      fresh(v) == v \notin disc
                  IN  [stack |-> rest \o SelectSeq(
                                   neighbors_directed(node, "Incoming"), fresh),
                       discovered |-> disc, node |-> node]
             ELSE dfs_next([st EXCEPT !.stack = rest])

\* Second pass of toposort: walking the candidate order, a node from which
\* the reversed search yields a second node lies on a cycle.
RECURSIVE toposort_check(_, _)
toposort_check(order, disc) ==
    IF order = <<>> THEN TRUE
    ELSE LET r1 == dfs_next([stack |-> <<Head(order)>>, discovered |-> disc,
                             node |-> 0])
             r2 == dfs_next(r1)
         IN  IF r1.node = 0 THEN toposort_check(Tail(order), r1.discovered)
             ELSE IF r2.node # 0 THEN FALSE
             ELSE toposort_check(Tail(order), r2.discovered)

toposort ==
    LET st == toposort_roots(Len(graph_nodes),
                  [stack |-> <<>>, discovered |-> {}, finished |-> {},
                   finish_stack |-> <<>>, err |-> FALSE])
        order == Reverse(st.finish_stack)
    IN  IF st.err \/ ~toposort_check(order, {})
        THEN [ok |-> FALSE, order |-> <<>>]
        ELSE [ok |-> TRUE, order |-> order]

\* DepGraph::get_build_order (graph.rs:219-234): an error on a cycle, else
\* the reverse of toposort's order.
MutBuildOrderNotReversed ==
    IF has_cycle THEN [ok |-> FALSE, order |-> <<>>]
    ELSE toposort

get_build_order ==
    IF has_cycle THEN [ok |-> FALSE, order |-> <<>>]
    ELSE IF ~toposort.ok THEN [ok |-> FALSE, order |-> <<>>]
    ELSE [ok |-> TRUE, order |-> Reverse(toposort.order)]

\* The loops of get_affected (graph.rs:250-257): the last pushed node is
\* popped, and each dependent not yet visited is recorded and pushed.
RECURSIVE affected_neighbors(_, _)
affected_neighbors(ns, st) ==
    IF ns = <<>> THEN st
    ELSE affected_neighbors(Tail(ns),
            IF Head(ns) \in st.visited THEN st
            ELSE [visited |-> st.visited \cup {Head(ns)},
                  affected |-> Append(st.affected, Head(ns)),
                  queue |-> Append(st.queue, Head(ns))])

affected_dependents(idx) == neighbors_directed(idx, "Incoming")

RECURSIVE affected_loop(_)
affected_loop(st) ==
    IF st.queue = <<>> THEN st.affected
    ELSE LET idx == st.queue[Len(st.queue)]
             popped == [st EXCEPT !.queue = SubSeq(@, 1, Len(@) - 1)]
         IN  affected_loop(affected_neighbors(affected_dependents(idx), popped))

\* DepGraph::get_affected (graph.rs:237-260).
get_affected(package_name) ==
    IF package_name \notin DOMAIN name_to_idx THEN <<>>
    ELSE LET start_idx == name_to_idx[package_name]
         IN  affected_loop([visited |-> {start_idx}, affected |-> <<start_idx>>,
                            queue |-> <<start_idx>>])

\* DepGraph::get_package (graph.rs:263-265): the node index, 0 for None.
get_package(name) ==
    IF name \in DOMAIN name_to_idx THEN name_to_idx[name] ELSE 0

\* DepGraph::packages (graph.rs:268-270).
packages == [i \in NodeIndices |-> i]

\* add_workspace_node (graph.rs:141-164): a new node, and the name index
\* points the name at it.  from_root adds every node before any edge.
AddWorkspaceNode(name) ==
    /\ Len(graph_nodes) < MaxNodes
    /\ graph_edges = <<>>
    /\ graph_nodes' = Append(graph_nodes, name)
    /\ name_to_idx' = [k \in DOMAIN name_to_idx \cup {name} |->
                          IF k = name THEN Len(graph_nodes) + 1
                          ELSE name_to_idx[k]]
    /\ answer' = NoAnswer
    /\ UNCHANGED graph_edges
    /\ UNCHANGED nonGraphVars

\* build_edges (graph.rs:167-210), one dependency entry of one manifest:
\* both names are looked up in the name index.
AddEdge(from_name, to_name) ==
    /\ Len(graph_edges) < MaxEdges
    /\ from_name \in DOMAIN name_to_idx
    /\ to_name \in DOMAIN name_to_idx
    /\ graph_edges' = Append(graph_edges,
                             <<name_to_idx[from_name], name_to_idx[to_name]>>)
    /\ answer' = NoAnswer
    /\ UNCHANGED <<graph_nodes, name_to_idx>>
    /\ UNCHANGED nonGraphVars

HasCycleCall ==
    /\ answer' = Answer("has_cycle", "", has_cycle, <<>>)
    /\ UNCHANGED <<graph_nodes, graph_edges, name_to_idx>>
    /\ UNCHANGED nonGraphVars

GetBuildOrderCall ==
    /\ answer' = Answer("get_build_order", "", get_build_order.ok,
                        get_build_order.order)
    /\ UNCHANGED <<graph_nodes, graph_edges, name_to_idx>>
    /\ UNCHANGED nonGraphVars

GetAffectedCall(name) ==
    /\ answer' = Answer("get_affected", name, TRUE, get_affected(name))
    /\ UNCHANGED <<graph_nodes, graph_edges, name_to_idx>>
    /\ UNCHANGED nonGraphVars

GetPackageCall(name) ==
    /\ answer' = Answer("get_package", name, get_package(name) # 0,
                        IF get_package(name) # 0 THEN <<get_package(name)>>
                        ELSE <<>>)
    /\ UNCHANGED <<graph_nodes, graph_edges, name_to_idx>>
    /\ UNCHANGED nonGraphVars

PackagesCall ==
    /\ answer' = Answer("packages", "", TRUE, packages)
    /\ UNCHANGED <<graph_nodes, graph_edges, name_to_idx>>
    /\ UNCHANGED nonGraphVars

\* run_all_parallel up to the scheduler call (main.rs:553-627): no packages,
\* nothing to do; a build-order error is returned before any task is made;
\* else one task per package of the build order goes to the scheduler.
RunAllCall ==
    /\ answer' = IF package_count = 0 THEN Answer("run_all", "", TRUE, <<>>)
                 ELSE IF ~get_build_order.ok
                      THEN Answer("run_all", "", FALSE, <<>>)
                      ELSE Answer("run_all", "", TRUE, get_build_order.order)
    /\ UNCHANGED <<graph_nodes, graph_edges, name_to_idx>>
    /\ UNCHANGED nonGraphVars

GraphNext ==
    \/ \E name \in PackageNames : AddWorkspaceNode(name)
    \/ \E from_name, to_name \in PackageNames : AddEdge(from_name, to_name)
    \/ HasCycleCall
    \/ GetBuildOrderCall
    \/ \E name \in PackageNames : GetAffectedCall(name)
    \/ \E name \in PackageNames : GetPackageCall(name)
    \/ PackagesCall
    \/ RunAllCall

\* An empty graph; nothing else is in use.
GraphInit == SchedIdle /\ GraphIdle /\ CacheIdle /\ RunIdle /\ LaterIdle

GraphSpec == GraphInit /\ [][GraphNext]_vars

(***************************************************************************)
(* Properties of the graph queries.  Reachability is defined here from the *)
(* edge set alone, independently of the searches of the model.             *)
(***************************************************************************)

EdgeSet == Range(graph_edges)

\* The nodes reachable from the set along one or more edges.
RECURSIVE ReachFrom(_, _)
ReachFrom(frontier, seen) ==
    LET next == {e[2] : e \in {x \in EdgeSet : x[1] \in frontier}} \ seen
    IN  IF next = {} THEN seen ELSE ReachFrom(next, seen \cup next)

Reaches(a, b) == b \in ReachFrom({a}, {})

GraphCyclic == \E n \in NodeIndices : Reaches(n, n)

IndexOf(seq, x) == CHOOSE i \in 1..Len(seq) : seq[i] = x

NoDuplicates(seq) == \A i, j \in 1..Len(seq) : seq[i] = seq[j] => i = j

\* C7 Build-order correctness: on an acyclic workspace graph get_build_order
\* returns an order that holds every node once, and for every edge D -> N
\* (D depends on N) N stands strictly before D in it.
C7_BuildOrder ==
    (answer.op = "get_build_order" /\ ~GraphCyclic) =>
        /\ answer.ok
        /\ Range(answer.list) = NodeIndices
        /\ NoDuplicates(answer.list)
        /\ \A e \in EdgeSet :
               IndexOf(answer.list, e[2]) < IndexOf(answer.list, e[1])

\* A build order was asked of a graph with a chain of two edges whose
\* indices run against the order.
C7_Witness ==
    /\ answer.op = "get_build_order"
    /\ ~GraphCyclic
    /\ answer.ok
    /\ \E a, b, c \in NodeIndices :
           /\ a < b /\ b < c
           /\ <<a, b>> \in EdgeSet
           /\ <<b, c>> \in EdgeSet

\* C8 On a graph with a cycle get_build_order returns an error and no order,
\* run-all returns the error and hands no task to the scheduler, has_cycle
\* answers true, and packages, get_package and get_affected answer as on any
\* graph: all nodes, the node of the name, a duplicate-free list that starts
\* with the node of the name.
C8_CycleError ==
    GraphCyclic =>
        /\ answer.op = "get_build_order" => (~answer.ok /\ answer.list = <<>>)
        /\ answer.op = "run_all" => (~answer.ok /\ answer.list = <<>>)
        /\ answer.op = "has_cycle" => answer.ok
        /\ answer.op = "packages" =>
               (answer.ok /\ answer.list = [i \in NodeIndices |-> i])
        /\ (answer.op = "get_package" /\ answer.arg \in DOMAIN name_to_idx) =>
               (answer.ok /\ answer.list = <<name_to_idx[answer.arg]>>)
        /\ (answer.op = "get_affected" /\ answer.arg \in DOMAIN name_to_idx) =>
               /\ answer.ok
               /\ NoDuplicates(answer.list)
               /\ Len(answer.list) >= 1
               /\ answer.list[1] = name_to_idx[answer.arg]

\* run-all was asked of a graph with a cycle through two nodes.
C8_Witness ==
    /\ answer.op = "run_all"
    /\ ~answer.ok
    /\ \E a, b \in NodeIndices : a # b /\ Reaches(a, b) /\ Reaches(b, a)

\* The transitive dependents of node x, and x itself.
AffectedClosure(x) == {x} \cup {n \in NodeIndices : Reaches(n, x)}

\* C9 (as stated) Affected closure, for every node X of the graph:
\* get_affected of X's name returns X and every transitive dependent of X,
\* each exactly once, and nothing else.
C9_Original ==
    answer.op = "get_affected" =>
        \A x \in NodeIndices :
            graph_nodes[x] = answer.arg =>
                /\ Range(answer.list) = AffectedClosure(x)
                /\ NoDuplicates(answer.list)

\* get_affected of a name the index knows returns the node the index maps
\* the name to and every transitive dependent of that node, each exactly
\* once, and nothing else; of any other name it returns nothing.
AffectedOfIndexedNode ==
    answer.op = "get_affected" =>
        IF answer.arg \in DOMAIN name_to_idx
        THEN /\ Range(answer.list) = AffectedClosure(name_to_idx[answer.arg])
             /\ NoDuplicates(answer.list)
        ELSE answer.list = <<>>

\* get_affected was asked of a node with a direct and a transitive dependent.
AffectedOfChain ==
    /\ answer.op = "get_affected"
    /\ Len(answer.list) = 3
    /\ \E a, b \in NodeIndices :
           /\ <<a, b>> \in EdgeSet
           /\ <<b, answer.list[1]>> \in EdgeSet
           /\ a # answer.list[1]

\* A new cache; nothing else is in use.
CacheInit == SchedIdle /\ GraphIdle /\ CacheIdle /\ RunIdle /\ LaterIdle

CacheSpec == CacheInit /\ [][CacheNext]_vars

\* A project about to be run for the first time; nothing else is in use.
RunBegin == SchedIdle /\ GraphIdle /\ CacheIdle /\ RunInit /\ LaterIdle

RunSpec == RunBegin /\ [][RunNext]_vars

(***************************************************************************)
(* Properties of the result cache and of the tiered run.                   *)
(***************************************************************************)

\* The value of the most recent store under the key after the last clear.
RECURSIVE LastStore(_, _)
LastStore(log, key) ==
    IF log = <<>> THEN Found(TRUE, FALSE, NoOutput)
    ELSE LET last == log[Len(log)]
         IN  IF last.op = "clear" THEN Found(TRUE, FALSE, NoOutput)
             ELSE IF last.key = key THEN Found(TRUE, TRUE, last.value)
             ELSE LastStore(SubSeq(log, 1, Len(log) - 1), key)

\* C10 Result cache round-trip: after any sequence of store_cached and
\* clear_cache calls, get_cached(k) returns the value of the most recent
\* store_cached(k, v) made after the last clear_cache, and none when there
\* is no such store.
C10_RoundTrip ==
    cache_answer.key # <<>> =>
        cache_answer.found = LastStore(cache_log, cache_answer.key)

\* get_cached answered for a key that was stored, cleared, and stored again.
C10_Witness ==
    /\ cache_answer.key # <<>>
    /\ cache_answer.found.some
    /\ Len(cache_log) = 3
    /\ cache_log[1].op = "store" /\ cache_log[1].key = cache_answer.key
    /\ cache_log[2].op = "clear"
    /\ cache_log[3].op = "store" /\ cache_log[3].key = cache_answer.key
    /\ cache_log[3].value # cache_log[1].value

\* Every run that began after an output had been captured for its
\* fingerprint (and before any clear) replays that output and does not
\* execute.
LaterRunsReplay ==
    (outcome.kind \notin {"none", "not_found"} /\ outcome.later) =>
        /\ outcome.kind = "replayed"
        /\ outcome.stdout = captured[outcome.hash].stdout
        /\ outcome.stderr = captured[outcome.hash].stderr

\* C5 (as stated) At-most-once execution per fingerprint: over the runs made
\* with fingerprint F since the last cache clear the command is executed at
\* most once, and every later run replays the output captured for F.
C5_Original ==
    /\ \A h \in Fingerprints : execs[h] <= 1
    /\ LaterRunsReplay

\* The command is being executed for the second time for one fingerprint
\* with no clear in between.
ExecutedTwice ==
    /\ run.pc = "running"
    /\ execs[run.hash] = 2

TierRank(tier) ==
    CASE tier = "L1" -> 1 [] tier = "remote" -> 2 [] tier = "peer" -> 3
      [] tier = "exec" -> 4

\* The tier gave no usable output: nothing stored, a failed request or a
\* payload that is no TaskOutput.
Missed(event) == event.result \in {"miss", "error", "unparsable"}

C11_Original ==
    (run.pc # "idle" /\ run.prev_key # <<>>) => run.key = run.prev_key

\* The run that follows an executing run computes another cache key.
SecondRunOtherKey ==
    /\ run.pc = "l1"
    /\ run.prev_key # <<>>
    /\ run.key # run.prev_key
    /\ outcome.kind = "none"
    /\ execs[fingerprint] = 0

\* With the cache directory excluded from the hashed files, back-to-back
\* runs compute the same cache key.
SameKeyWhenIgnored ==
    (neex_ignored /\ run.pc # "idle" /\ run.prev_key # <<>>) =>
        run.key = run.prev_key

\* The first subsystems are not in use.
CoreIdle == SchedIdle /\ GraphIdle /\ CacheIdle /\ RunIdle

HasherInit ==
    CoreIdle /\ HasherIdle /\ AstIdle /\ RunAllIdle /\ CloudIdle /\ DaemonIdle /\ ThirdIdle /\ FourthIdle

HasherSpec == HasherInit /\ [][HasherNext]_vars

\* C12 Global fingerprint determinism: two calls of global_hash on the same
\* set of (path, content) return the same hash, whatever the orders in which
\* the walk yielded the files.
C12_OrderIndependent ==
    \A i, j \in 1..Len(hash_log) :
        hash_log[i].files = hash_log[j].files =>
            hash_log[i].hash = hash_log[j].hash

\* Two calls on the same three files, the walk yielding them in two
\* different orders.
C12_Witness ==
    /\ Len(hash_log) = 2
    /\ hash_log[1].files = hash_log[2].files
    /\ hash_log[1].order # hash_log[2].order
    /\ Len(hash_log[1].order) = MaxPaths
    /\ \E p, q \in Paths : hash_log[1].files[p] # hash_log[1].files[q]

\* A file of either extension whose source has no comment yet.
AstInit ==
    /\ CoreIdle /\ HasherIdle /\ RunAllIdle /\ CloudIdle /\ DaemonIdle /\ ThirdIdle /\ FourthIdle
    /\ ast_ext \in Extensions
    /\ ast_tree \in PlainTrees
    /\ ast_log = <<>>

AstSpec == AstInit /\ [][AstNext]_vars

\* C13 Comment invariance: two calls of hash_ast on syntax trees that differ
\* only by comment subtrees feed the digest the same bytes and return the
\* same hash.
C13_CommentInvariance ==
    \A i, j \in 1..Len(ast_log) :
        (ast_log[i].ext \in Parseable /\ ast_log[i].code = ast_log[j].code) =>
            ast_log[i].out = ast_log[j].out

\* Two calls on a parsed file with a statement, the first on the source
\* without a comment and the second with two comments.
C13_Witness ==
    /\ Len(ast_log) = 2
    /\ ast_log[1].ext \in Parseable
    /\ ast_log[1].code = ast_log[2].code
    /\ ast_log[1].code.children # <<>>
    /\ ast_log[1].comments = 0
    /\ ast_log[2].comments = MaxComments

\* Without a grammar the content is hashed as it is, comments included.
RawHashSeesComments ==
    \A i, j \in 1..Len(ast_log) :
        (ast_log[i].ext \notin Parseable /\ ast_log[i].code = ast_log[j].code
            /\ ast_log[i].comments # ast_log[j].comments) =>
            ast_log[i].out # ast_log[j].out

(***************************************************************************)
(* main.rs: run_all_parallel, from the manifests of the workspaces to the  *)
(* scheduler.  The workspace discovered k-th is the graph node k and the   *)
(* task k; a dependency map is the set of the workspaces it names.         *)
(***************************************************************************)

\* The names of the workspaces in the order of their discovery.
WorkspaceNames == <<"utils", "ui", "web">>

DepKinds == {"dependencies", "devDependencies", "peerDependencies"}

\* The dependency maps of the manifest of workspace k out of n: at most
\* MaxDeps entries that name another workspace.
ManifestsOf(k, n) ==
    {m \in [DepKinds -> SUBSET ((1..n) \ {k})] :
        Cardinality(m["dependencies"]) + Cardinality(m["devDependencies"])
            + Cardinality(m["peerDependencies"]) <= MaxDeps}

\* The manifests of n workspaces.
RECURSIVE ManifestChoices(_, _)
ManifestChoices(k, n) ==
    IF k = 0 THEN {<<>>}
    ELSE {Append(ms, m) : ms \in ManifestChoices(k - 1, n),
                          m \in ManifestsOf(k, n)}

\* The members of a set of numbers in increasing order.
RECURSIVE SortedSeq(_)
SortedSeq(S) ==
    IF S = {} THEN <<>>
    ELSE LET least == CHOOSE x \in S : \A y \in S : x <= y
         IN  <<least>> \o SortedSeq(S \ {least})

\* build_edges (graph.rs:167-210): the edges of one manifest, the three maps
\* in the order of the code.
EdgesOfManifest(k) ==
    LET all_deps == SortedSeq(manifests[k]["dependencies"]) \o
                    SortedSeq(manifests[k]["devDependencies"]) \o
                    SortedSeq(manifests[k]["peerDependencies"])
    IN  [i \in 1..Len(all_deps) |-> <<k, all_deps[i]>>]

\* DepGraph::from_root (graph.rs:82-104): the edges of all the manifests in
\* the order of the nodes.
BuiltEdges ==
    Flatten([k \in 1..Len(manifests) |-> EdgesOfManifest(k)])

\* The deps of the task of workspace k (main.rs:567-583): the keys of the
\* "dependencies" map that name a workspace.
TaskDeps(k) == manifests[k]["dependencies"] \cap (1..Len(manifests))

\* DepGraph::from_root (graph.rs:82-104), called by run_all_parallel
\* (main.rs:557): a node per workspace, then the edges of the manifests.
FromRoot ==
    /\ run_all.pc = "idle"
    /\ graph_nodes' = SubSeq(WorkspaceNames, 1, Len(manifests))
    /\ name_to_idx' = [name \in {WorkspaceNames[k] : k \in 1..Len(manifests)} |->
                          CHOOSE k \in 1..Len(manifests) :
                              WorkspaceNames[k] = name]
    /\ graph_edges' = BuiltEdges
    /\ answer' = NoAnswer
    /\ run_all' = [run_all EXCEPT !.pc = "graph"]
    /\ UNCHANGED manifests
    /\ UNCHANGED <<schedVars, cacheVars, runVars, hasherVars, astVars, cloudVars,
                   daemonVars, thirdVars, fourthVars>>

\* run_all_parallel from the graph to the call of execute (main.rs:558-627):
\* no workspace, or a cycle, ends the command; else every workspace of the
\* build order becomes a task of a fail-fast scheduler.
RunAllStart(c) ==
    /\ run_all.pc = "graph"
    /\ IF package_count = 0
       THEN /\ run_all' = [run_all EXCEPT !.pc = "no_workspaces"]
            /\ UNCHANGED schedVars
       ELSE IF ~get_build_order.ok
       THEN /\ run_all' = [run_all EXCEPT !.pc = "order_error"]
            /\ UNCHANGED schedVars
       ELSE /\ run_all' = [run_all EXCEPT !.pc = "execute"]
            /\ concurrency' = c
            /\ fail_fast' = TRUE
            /\ dep_map' = [k \in 1..Len(manifests) |-> TaskDeps(k)]
            /\ task_count' = Len(get_build_order.order)
            /\ handles' = [k \in 1..Len(manifests) |-> NoHandles]
            /\ job' = [k \in 1..Len(manifests) |-> "none"]
            /\ status' = [k \in 1..Len(manifests) |-> "Pending"]
            /\ pc' = "call"
            /\ UNCHANGED <<semaphore, chan, completed, failed, pending_tasks,
                           results, received>>
    /\ UNCHANGED manifests
    /\ UNCHANGED <<graphVars, cacheVars, runVars, hasherVars, astVars, cloudVars,
                   daemonVars, thirdVars, fourthVars>>

\* run_all_parallel after execute (main.rs:629-640): the results are counted.
RunAllReport ==
    /\ run_all.pc = "execute"
    /\ pc = "returned"
    /\ run_all' = [pc |-> "done",
                   succeeded |-> Cardinality(ResultsWith("Completed")),
                   failed |-> Cardinality(ResultsWith("Failed"))]
    /\ UNCHANGED manifests
    /\ UNCHANGED <<schedVars, graphVars, cacheVars, runVars, hasherVars, astVars,
                   cloudVars, daemonVars, thirdVars, fourthVars>>

RunAllNext ==
    \/ FromRoot
    \/ \E c \in 1..MaxConcurrency : RunAllStart(c)
    \/ RunAllReport
    \/ ExecuteStart
    \/ Recv
    \/ Dispatch
    \/ Join
    \/ \E t \in Names : JobCheck(t)
    \/ \E t \in Names : JobCancel(t)
    \/ \E t \in Names : JobAcquire(t)
    \/ \E t \in Names : ThunkReturn(t)
    \/ \E t \in Names : JobSend(t)

\* The manifests of up to MaxTasks workspaces; nothing is running.
RunAllInit ==
    /\ SchedIdle /\ GraphIdle /\ CacheIdle /\ RunIdle
    /\ HasherIdle /\ AstIdle /\ CloudIdle /\ DaemonIdle /\ ThirdIdle /\ FourthIdle
    /\ manifests \in UNION {ManifestChoices(n, n) : n \in 0..MaxTasks}
    /\ run_all = NoRunAll

RunAllSpec == RunAllInit /\ [][RunAllNext]_vars

\* The workspaces that the graph makes t depend on.
GraphDeps(t) == {d \in NodeIndices : <<t, d>> \in Range(graph_edges)}

\* C14 (as stated) A run-all respects the dependency DAG: the script of a
\* package has not started unless the scripts of all the workspace packages
\* it depends on, through its runtime, dev or peer dependency maps (the
\* edges of the workspace graph), have completed successfully.
C14_Original ==
    run_all.pc # "idle" =>
        \A t \in Names :
            Started(t) => \A d \in GraphDeps(t) : status[d] = "Completed"

\* The script of a package is running while the script of a workspace it
\* names in devDependencies or peerDependencies has not started.
StartedBeforeDevDependency ==
    /\ run_all.pc = "execute"
    /\ \E t \in Names :
          /\ job[t] = "running"
          /\ \E d \in GraphDeps(t) :
                /\ d \in manifests[t]["devDependencies"]
                                \cup manifests[t]["peerDependencies"]
                /\ status[d] = "Pending"

\* The order holds for the workspaces named in "dependencies".
RuntimeDependenciesFirst ==
    run_all.pc # "idle" =>
        \A t \in Names :
            Started(t) =>
                \A d \in manifests[t]["dependencies"] : status[d] = "Completed"

(***************************************************************************)
(* Fail-fast and absent dependencies in Scheduler::execute.                *)
(***************************************************************************)

\* C15 (as stated) Fail-fast stops on the first error: under fail-fast,
\* once a Failed result has been recorded and the failed flag is set, no
\* thunk starts executing, whatever the interleaving.
C15_Original ==
    [][(fail_fast /\ failed) =>
          \A t \in Names : job[t] # "running" => job'[t] # "running"]_vars

\* The failed flag is set while a job that passed its check before the
\* failure waits for a permit, holds its task, and a permit is free: its
\* thunk is the next to start.
PermitWaiterAfterFailure ==
    /\ fail_fast /\ failed
    /\ semaphore > 0
    /\ \E t \in Names : handles[t].acquire > 0 /\ t \in pending_tasks

\* A job that makes its check once the flag is set publishes Cancelled and
\* does not run its thunk.
CheckAfterFailureCancels ==
    [][\A t \in Names :
          (failed /\ handles[t].check > 0 /\ handles'[t].check < handles[t].check)
              => /\ handles'[t].cancel = handles[t].cancel + 1
                 /\ job'[t] = job[t]]_vars

\* C16 (as stated) Under fail-fast, after a task fails, the tasks of the
\* input that did not run are in the results returned by execute with
\* status Cancelled.
C16_Original ==
    (fail_fast /\ pc = "returned" /\ ResultsWith("Failed") # {}) =>
        \A t \in Names :
            status[t] = "Pending" =>
                \E i \in 1..Len(results) : results[i] = TaskResult(t, "Cancelled")

\* execute has returned a Failed result under fail-fast and a task that did
\* not run has no result at all.
RemainingNotReported ==
    /\ fail_fast /\ pc = "returned" /\ ResultsWith("Failed") # {}
    /\ \E t \in Names :
          /\ status[t] = "Pending"
          /\ \A i \in 1..Len(results) : results[i].name # t

\* No Cancelled result is ever collected: the collector stops at the result
\* that sets the flag, and a job publishes Cancelled only once it is set.
NoCancelledCollected == ResultsWith("Cancelled") = {}

\* The task has a dependency that names no task of the input, its other
\* dependencies have completed, and neither fail-fast nor a scheduler
\* without permits stands in its way.
BlockedOnlyByAbsent(t) ==
    /\ t \in Names
    /\ concurrency > 0 /\ ~fail_fast
    /\ AbsentName \in dep_map[t]
    /\ \A d \in dep_map[t] \cap Names : d \in completed

\* C17 (as stated) Tolerant mode: a dependency name that is not the name of
\* a task of the input is treated as already satisfied, so a task whose
\* other dependencies complete is dispatched and runs.
C17_Original ==
    \A t \in 1..MaxTasks :
        BlockedOnlyByAbsent(t) ~> (t \in Names /\ Started(t))

\* The collector waits on an empty channel, no job is left, and a task whose
\* present dependency has completed is still pending behind its absent one.
AbsentDependencyBlocks ==
    /\ pc = "recv" /\ chan = <<>>
    /\ \A u \in Names : handles[u] = NoHandles /\ job[u] \in {"none", "done"}
    /\ \E t \in pending_tasks :
          /\ BlockedOnlyByAbsent(t)
          /\ dep_map[t] \cap Names # {}
          /\ status[t] = "Pending"

\* A task with a dependency that names no task of the input never starts.
AbsentDependencyNeverSatisfied ==
    \A t \in Names : AbsentName \in dep_map[t] => status[t] = "Pending"

(***************************************************************************)
(* The tiered run on a cache directory that holds an entry which is not    *)
(* the JSON of a TaskOutput (written by a release with another TaskOutput, *)
(* or damaged on disk).                                                    *)
(***************************************************************************)

\* The cache directory is left from earlier runs and one of its entries
\* does not parse; the directory is kept out of the hashed files.
CorruptBegin ==
    /\ SchedIdle /\ GraphIdle /\ LaterIdle
    /\ \E key \in CacheKeys : db = [clear_cache EXCEPT ![key] = Corrupt]
    /\ cache_log = <<>>
    /\ cache_answer = NoCacheAnswer
    /\ RunInit
    /\ neex_ignored

CorruptRunSpec == CorruptBegin /\ [][RunNext]_vars

\* C18 (as stated) Cache corruption is a miss: a run whose L1 entry fails to
\* deserialize goes on to the later tiers and to execution instead of
\* failing, and the execution overwrites the entry: no run ends with an
\* error at L1.
C18_Original ==
    \A i \in 1..Len(tier_log) : tier_log[i] # Event("L1", "error")

\* A run has ended with the error of get_cached: the entry under its key
\* does not parse, is still in the store, and nothing was executed.
CorruptEntryFailsRun ==
    /\ run.pc = "idle"
    /\ outcome.kind = "error"
    /\ tier_log = <<Event("L1", "error")>>
    /\ last_key \in CacheKeys
    /\ db[last_key] = Corrupt
    /\ \A h \in Fingerprints : execs[h] = 0

\* No run gets past L1 while the entry under its key does not parse.
CorruptEntryStopsRun ==
    run.pc \notin {"idle", "l1"} => db[run.key] # Corrupt

(***************************************************************************)
(* CloudCache::download.                                                   *)
(***************************************************************************)

\* A client made from a configuration with either value of enabled.
CloudInit ==
    /\ CoreIdle /\ HasherIdle /\ AstIdle /\ RunAllIdle /\ DaemonIdle /\ ThirdIdle /\ FourthIdle
    /\ enabled \in BOOLEAN
    /\ http_requests = 0
    /\ download_log = <<>>

CloudSpec == CloudInit /\ [][CloudNext]_vars

\* C19 (as stated) download maps the HTTP outcome: a 2xx status returns the
\* body bytes, a 404 status returns none, every other status is an error;
\* with enabled = false it returns none without any request.
C19_Original ==
    \A i \in 1..Len(download_log) :
        LET call == download_log[i]
            response == call.response
        IN  /\ ~call.enabled => (call.result = OkNone /\ call.requests = 0)
            /\ (call.enabled /\ response.sent) =>
                  /\ (is_success(response.status) /\ response.readable) =>
                         call.result = OkSome(response.body)
                  /\ response.status = 404 => call.result = OkNone
                  /\ (~is_success(response.status) /\ response.status # 404) =>
                         call.result = Err

\* An enabled client got a status that is neither 2xx nor 404 and returned
\* none.
OtherStatusIsNone ==
    \E i \in 1..Len(download_log) :
        /\ download_log[i].enabled
        /\ download_log[i].response.sent
        /\ download_log[i].response.status \in {403, 500}
        /\ download_log[i].result = OkNone

\* What the code does: a disabled client returns none without a request; a
\* request that fails is an error; a 2xx status returns the body, or an
\* error when the body cannot be read; every other status returns none.
DownloadMapping ==
    /\ http_requests =
          Cardinality({i \in 1..Len(download_log) : download_log[i].enabled})
    /\ \A i \in 1..Len(download_log) :
          LET call == download_log[i]
              response == call.response
          IN  /\ ~call.enabled => (call.result = OkNone /\ call.requests = 0)
              /\ (call.enabled /\ ~response.sent) => call.result = Err
              /\ (call.enabled /\ response.sent) =>
                    /\ (is_success(response.status) /\ response.readable) =>
                           call.result = OkSome(response.body)
                    /\ (is_success(response.status) /\ ~response.readable) =>
                           call.result = Err
                    /\ ~is_success(response.status) => call.result = OkNone

(***************************************************************************)
(* The IPC protocol of the daemon.                                         *)
(***************************************************************************)

\* A daemon that has bound its socket; nothing else is in use.
DaemonInit ==
    CoreIdle /\ HasherIdle /\ AstIdle /\ RunAllIdle /\ CloudIdle /\ DaemonIdle /\ ThirdIdle /\ FourthIdle

DaemonSpec == DaemonInit /\ [][DaemonNext]_vars

IsShutdown(line) == from_str(line).ok /\ from_str(line).request = "Shutdown"

\* The lines of the connection that precede its first Shutdown request.
RECURSIVE BeforeShutdown(_)
BeforeShutdown(lines) ==
    IF lines = <<>> \/ IsShutdown(Head(lines)) THEN <<>>
    ELSE <<Head(lines)>> \o BeforeShutdown(Tail(lines))

\* C20 (as stated) IPC protocol: every request line received on a
\* connection, other than Shutdown, is answered with exactly one response
\* line before the connection is closed, and a request that carries an
\* unknown tag is answered with an Error response.
C20_Original ==
    \A i \in 1..Len(conn_log) :
        LET requests == BeforeShutdown(conn_log[i].requests)
            responses == conn_log[i].responses
        IN  /\ Len(responses) = Len(requests)
            /\ \A k \in 1..Len(requests) :
                  (requests[k].json /\ requests[k].tag = UnknownTag) =>
                      (k <= Len(responses) /\ responses[k] = "Error")

\* A connection on which the client wrote one line, a JSON request with an
\* unknown tag, was closed without any response line.
UnknownTagUnanswered ==
    \E i \in 1..Len(conn_log) :
        /\ conn_log[i].requests = <<[json |-> TRUE, tag |-> UnknownTag]>>
        /\ conn_log[i].responses = <<>>

\* What the code does: a connection gets one response line when its first
\* line parses as a request other than Shutdown, and none otherwise.
FirstLineOnly ==
    \A i \in 1..Len(conn_log) :
        LET requests == conn_log[i].requests
            first_ok == /\ requests # <<>>
                        /\ from_str(requests[1]).ok
                        /\ ~IsShutdown(requests[1])
        IN  Len(conn_log[i].responses) = IF first_ok THEN 1 ELSE 0

(***************************************************************************)
(* The artifact server of the daemon.                                      *)
(***************************************************************************)

\* An empty result cache and a server that has answered nothing.
ArtifactInit == CoreIdle /\ LaterIdle

ArtifactSpec == ArtifactInit /\ [][ArtifactNext]_vars

\* C21 The artifact server answers GET /artifact/<key> with 200 and exactly
\* the bytes stored in the result cache under the key when it is present,
\* with 404 when it is absent, and with 500 when the store lookup fails.
C21_ArtifactResponse ==
    artifact_answer # NoArtifactAnswer =>
        IF ~artifact_answer.lookup_ok
        THEN artifact_answer.status = 500
        ELSE IF artifact_answer.stored # NoBytes
        THEN /\ artifact_answer.status = 200
             /\ artifact_answer.body = artifact_answer.stored
        ELSE artifact_answer.status = 404

\* A request for a key under which an output was stored got 200 and the
\* bytes of the output.
C21_Witness ==
    /\ artifact_answer.status = 200
    /\ artifact_answer.key \in CacheKeys
    /\ \E output \in TaskOutputs : artifact_answer.body = to_vec(output)
    /\ db[artifact_answer.key] = artifact_answer.body

\* C22 A run whose command exits with a non-zero code ends with a failure
\* for the caller (exit status 1), not with success.
C22_Original ==
    (outcome.kind = "executed" /\ outcome.exit_code # 0)
        => ProcessExit(outcome.kind) = 1

\* A run executed a command that exited with code 1, stored its output and
\* returned Ok: the process ends with status 0.
FailedCommandReturnsOk ==
    /\ outcome.kind = "executed"
    /\ outcome.exit_code = 1
    /\ outcome.stderr = <<"boom">>
    /\ ProcessExit(outcome.kind) = 0
    /\ get_cached(last_key).some
    /\ get_cached(last_key).value.exit_code = 1

(***************************************************************************)
(* The state of the daemon.                                                *)
(***************************************************************************)

\* An empty root and a new DaemonState.
StateInit == CoreIdle /\ LaterIdle

StateSpec == StateInit /\ [][StateNext]_vars

\* C23 get_changed(old) returns exactly the paths of the in-memory index
\* for which old has no entry or a different digest; a path that is only in
\* old is never returned.
C23_GetChanged ==
    state_call.op = "get_changed" =>
        /\ \A path \in Paths :
              path \in state_call.result <=>
                 /\ path \in DOMAIN hashes
                 /\ \/ path \notin DOMAIN state_call.old
                    \/ state_call.old[path] # hashes[path]
        /\ \A path \in DOMAIN state_call.old \ DOMAIN hashes :
              path \notin state_call.result

\* A call where the index holds a path that old lacks and a path with
\* another digest in old, the two paths returned, while old holds a path
\* the index lacks.
C23_Witness ==
    /\ state_call.op = "get_changed"
    /\ \E p, q \in DOMAIN hashes :
          /\ p \notin DOMAIN state_call.old
          /\ q \in DOMAIN state_call.old
          /\ state_call.old[q] # hashes[q]
          /\ state_call.result = {p, q}
    /\ \E r \in DOMAIN state_call.old : r \notin DOMAIN hashes

\* C24 After any sequence of successful full_scan, update_file and
\* remove_file, the persistent store holds exactly the path -> digest pairs
\* of the in-memory map; full_scan leaves no entry in the store for a path
\* the scan did not find.
C24_Original ==
    /\ state_db = hashes
    /\ state_call.op = "full_scan" => DOMAIN state_db = state_call.found

\* A full scan has returned and the store holds an entry for a path that
\* the scan did not find and the in-memory map lacks.
StaleEntryAfterScan ==
    /\ state_call.op = "full_scan"
    /\ DOMAIN hashes = state_call.found
    /\ \E path \in DOMAIN state_db :
          /\ path \notin state_call.found
          /\ path \notin DOMAIN hashes
          /\ disk[path] = NoFile

\* Every pair of the in-memory map is in the store.
IndexWithinStore ==
    \A path \in DOMAIN hashes :
        path \in DOMAIN state_db /\ state_db[path] = hashes[path]

(***************************************************************************)
(* The running daemon: watcher, drain cycles and requests.                 *)
(***************************************************************************)

\* DaemonServer::start (server.rs:77-84): the root holds whatever files it
\* holds, the initial scan has filled the index and the watcher has started.
WatchInit ==
    /\ CoreIdle /\ AstIdle /\ RunAllIdle /\ CloudIdle /\ DaemonIdle
    /\ ArtifactIdle /\ WatchIdle /\ FourthIdle
    /\ disk \in [Paths -> Contents \cup {NoFile}]
    /\ hash_log = <<>>
    /\ hashes = ScanIndex
    /\ state_db = ScanIndex
    /\ state_call = NoStateCall

WatchSpec == WatchInit /\ [][WatchNext]_vars

\* How many times the path occurs in the sequence.
Occurrences(seq, path) == Cardinality({i \in 1..Len(seq) : seq[i] = path})

\* C29 In one drain cycle each affected path is rehashed once, whatever the
\* number of events the watcher delivered for it.
C29_Original ==
    drain.done =>
        \A path \in Paths : Occurrences(drain.rehashed, path) <= 1

\* A drain cycle polled two events for one path and hashed the file twice.
RehashedPerEvent ==
    /\ drain.done
    /\ \E path \in Paths :
          /\ Occurrences(drain.rehashed, path) = 2
          /\ Cardinality({i \in 1..Len(drain.changes) :
                             drain.changes[i].path = path}) = 2

\* A drain cycle hashes a path once for each Create or Modify event polled
\* for it.
OneRehashPerEvent ==
    drain.done =>
        \A path \in Paths :
            Occurrences(drain.rehashed, path) =
            Cardinality({i \in 1..Len(drain.changes) :
                            /\ drain.changes[i].path = path
                            /\ drain.changes[i].kind # "Delete"})

\* C30 A Rescan request forces a rescan: when the daemon answers Ok to
\* Rescan, its in-memory index equals the result of a full scan of the
\* files at that moment.
C30_Original ==
    rescan_answer.response = "Ok" => hashes = ScanIndex

\* The daemon has answered Ok to Rescan while a file written since the last
\* drain cycle has another digest in its index than on the disk.
RescanAnsweredStale ==
    /\ rescan_answer.response = "Ok"
    /\ \E path \in Paths \ IgnoredPaths :
          /\ disk[path] # NoFile
          /\ path \in DOMAIN hashes
          /\ hashes[path] # FileHash(path).hash
          /\ \E i \in 1..Len(events) : events[i].path = path

\* Answering a Rescan request changes neither the index nor the store.
RescanChangesNothing ==
    [][rescan_answer' # rescan_answer /\ rescan_answer'.response = "Ok"
          => UNCHANGED <<hashes, state_db>>]_vars

\* The task depends, directly or through other tasks, on a task whose thunk
\* failed.
DependsOnFailed(t) == \E d \in TransDeps(t, {}) : status[d] = "Failed"

\* The task has a result in the results collected so far.
Reported(t) == \E i \in 1..Len(results) : results[i].name = t

\* C25 With fail-fast disabled, when a task fails its dependents are never
\* dispatched and never appear in the results, and execute does not return
\* as long as such a dependent exists; the tasks whose dependencies have all
\* completed still run.
C25_FailedDependency ==
    /\ [](~fail_fast =>
            \A t \in Names :
                DependsOnFailed(t) =>
                    /\ status[t] = "Pending"
                    /\ handles[t] = NoHandles /\ job[t] = "none"
                    /\ ~Reported(t)
                    /\ pc # "returned")
    /\ \A t \in TaskNames :
          (/\ t \in Names
           /\ ~fail_fast /\ concurrency > 0
           /\ \A d \in dep_map[t] : d \in completed)
          ~> (t \in Names /\ Started(t))

\* Without fail-fast a task has failed, a task that depends on it is
\* pending, a task that does not depend on it has completed after the
\* failure was collected, and the collector waits on an empty channel with
\* no job left.
C25_Witness ==
    /\ ~fail_fast
    /\ pc = "recv" /\ chan = <<>>
    /\ \A u \in Names : handles[u] = NoHandles /\ job[u] \in {"none", "done"}
    /\ \E d, t, u \in Names :
          /\ status[d] = "Failed" /\ d \in dep_map[t]
          /\ status[t] = "Pending" /\ t \in pending_tasks
          /\ status[u] = "Completed" /\ u \notin {d, t}
          /\ Len(results) = 2
          /\ results[1] = TaskResult(d, "Failed")
          /\ results[2] = TaskResult(u, "Completed")

\* The last run ended on a hit of the remote tier.
RemoteHitEnded ==
    /\ run.pc = "idle"
    /\ outcome.kind = "replayed"
    /\ tier_log # <<>>
    /\ tier_log[Len(tier_log)] = Event("remote", "hit")

C27_Original ==
    run.pc = "finish" =>
        /\ get_cached(run.key).some
        /\ get_cached(run.key).value.hash = run.hash
        /\ upload # NoBytes => from_slice(upload).value.hash = run.hash

\* A run has executed the command and stored and handed to the upload an
\* output whose hash field is the cache key, script name and first 16
\* characters, where the global hash of the run is longer.
StoredHashIsCacheKey ==
    /\ run.pc = "finish"
    /\ get_cached(run.key).some
    /\ get_cached(run.key).value.hash = CacheKey(run.script, run.hash)
    /\ get_cached(run.key).value.hash # run.hash
    /\ upload # NoBytes
    /\ from_slice(upload).value.hash = CacheKey(run.script, run.hash)

\* The output stored after an execution carries the cache key of the run.
StoredHashIsKeyOfRun ==
    run.pc = "finish" =>
        /\ get_cached(run.key).some
        /\ get_cached(run.key).value.hash = run.key
        /\ upload # NoBytes => from_slice(upload).value.hash = run.key

\* C28 After from_root no two nodes of the workspace graph have the same
\* name, whatever the candidate manifests, two of them declaring the same
\* name included; the name index maps each name to the one node bearing it.
C28_Original ==
    /\ \A i, j \in NodeIndices : graph_nodes[i] = graph_nodes[j] => i = j
    /\ \A name \in DOMAIN name_to_idx :
          \A i \in NodeIndices :
              graph_nodes[i] = name <=> i = name_to_idx[name]

\* Two manifests declared the same name: the graph holds two nodes of that
\* name, with edges built, and the name index points at the later one.
TwoNodesOneName ==
    /\ graph_edges # <<>>
    /\ \E i, j \in NodeIndices :
          /\ i < j
          /\ graph_nodes[i] = graph_nodes[j]
          /\ name_to_idx[graph_nodes[i]] = j

\* There is a node for every manifest added, and the name index maps each
\* name to the last node added under it.
IndexPointsAtLastNode ==
    /\ DOMAIN name_to_idx = {graph_nodes[i] : i \in NodeIndices}
    /\ \A name \in DOMAIN name_to_idx :
          /\ graph_nodes[name_to_idx[name]] = name
          /\ \A i \in NodeIndices :
                graph_nodes[i] = name => i <= name_to_idx[name]

(***************************************************************************)
(* The PeerManager of the daemon.                                          *)
(***************************************************************************)

\* A PeerManager that has discovered nothing yet.
PeerInit == CoreIdle /\ LaterIdle

PeerSpec == PeerInit /\ [][PeerNext]_vars

\* Whether the last event the browse task received of the name resolved it.
ResolvedNotRemoved(name) ==
    \E i \in 1..Len(discovery_log) :
        /\ discovery_log[i].name = name
        /\ discovery_log[i].kind = "resolved"
        /\ \A j \in (i + 1)..Len(discovery_log) :
               discovery_log[j].name # name

\* C31 After any sequence of discovery events the peer map holds a peer
\* exactly when its service was resolved and not removed since, and it
\* never holds the advertisement of the local daemon.
C31_PeerMap ==
    /\ DOMAIN peers = {name \in ServiceNames \ {Fullname(LocalId)} :
                          ResolvedNotRemoved(name)}
    /\ Fullname(LocalId) \notin DOMAIN peers
    /\ \A name \in DOMAIN peers : peers[name].id = name

\* The own advertisement was resolved, one peer was resolved and removed,
\* and another one is still there.
C31_Witness ==
    /\ ResolvedNotRemoved(Fullname(LocalId))
    /\ \E i \in 1..Len(discovery_log) : discovery_log[i].kind = "removed"
                                        /\ discovery_log[i].name \notin DOMAIN peers
                                        /\ \E j \in 1..(i - 1) : discovery_log[j] = Resolved(discovery_log[i].name, discovery_log[j].addrs)
    /\ DOMAIN peers # {}

\* The peers asked by the last fetch that gave the artifact.
GavePeers ==
    {i \in 1..Len(fetch_answer.order) :
        fetch_from_peer(fetch_answer.responses[fetch_answer.order[i]]).ok}

\* C32 fetch_from_network asks the peers of the map one at a time, returns
\* the body of the first that answers 2xx without asking any further, and
\* returns none exactly when no peer answers 2xx, the empty map included; a
\* peer that errors is skipped.
C32_FirstPeerWins ==
    fetch_answer # NoFetch =>
        /\ Range(fetch_answer.order) = DOMAIN peers
        /\ IF GavePeers = {}
           THEN /\ ~fetch_answer.result.some
                /\ fetch_answer.result.queried = fetch_answer.order
           ELSE LET first == CHOOSE i \in GavePeers :
                                 \A j \in GavePeers : i <= j
                IN  /\ fetch_answer.result.some
                    /\ fetch_answer.result.data =
                          fetch_answer.responses[fetch_answer.order[first]].body
                    /\ fetch_answer.result.queried =
                          SubSeq(fetch_answer.order, 1, first)

\* The first peer asked errs, the second gives the artifact.
C32_Witness ==
    /\ fetch_answer # NoFetch
    /\ Len(fetch_answer.order) = 2
    /\ ~fetch_answer.responses[fetch_answer.order[1]].sent
    /\ fetch_answer.result.some
    /\ Len(fetch_answer.result.queried) = 2

\* Two peers would give the artifact and only the first is asked.
C32_WitnessStops ==
    /\ fetch_answer # NoFetch
    /\ Cardinality(GavePeers) = 2
    /\ fetch_answer.responses[fetch_answer.order[1]].body #
          fetch_answer.responses[fetch_answer.order[2]].body
    /\ Len(fetch_answer.result.queried) = 1

(***************************************************************************)
(* The SymbolGraph.                                                        *)
(***************************************************************************)

\* No graph built yet.
SymbolInit == CoreIdle /\ LaterIdle

SymbolSpec == SymbolInit /\ [][SymbolNext]_vars

\* The pairs of id and digest the files of the graph export, read from the
\* syntax trees.
ExportedPairs ==
    UNION {{<<SymbolId(PackageOfFile(file),
                       IF sym_sources[file][i].kind = "export_statement"
                       THEN sym_sources[file][i].name ELSE "default"),
              symbol_hash(sym_sources[file][i].text)>> :
               i \in {k \in 1..Len(sym_sources[file]) :
                         sym_sources[file][k] \in ExportNodes}} :
              file \in SymFiles}

\* The files whose tree imports the symbol of the id from a package of the
\* workspace.
ImportersOf(id) ==
    {file \in SymFiles :
        \E i \in 1..Len(sym_sources[file]) :
            /\ sym_sources[file][i] \in ImportNodes
            /\ sym_sources[file][i].source[2] \in SymPackages
            /\ \E j \in 1..Len(sym_sources[file][i].clause) :
                   id = <<sym_sources[file][i].source[2], ":",
                          sym_sources[file][i].clause[j].text>>}

\* C33 get_changed_symbols returns exactly the ids of the graph whose digest
\* is absent from the cache or differs from the cached one, never an id
\* that only the cache holds; get_affected_files returns exactly the union
\* of the consumers of the ids it is given.
C33_ChangedAndAffected ==
    /\ sym_answer # NoSymbolCall /\ sym_answer.op = "get_changed_symbols" =>
          /\ Range(sym_answer.result) =
                {pair[1] : pair \in
                    {q \in ExportedPairs :
                        \/ q[1] \notin DOMAIN sym_answer.cache
                        \/ sym_answer.cache[q[1]] # q[2]}}
          /\ Range(sym_answer.result) \subseteq
                {pair[1] : pair \in ExportedPairs}
    /\ sym_answer # NoSymbolCall /\ sym_answer.op = "get_affected_files" =>
          sym_answer.result =
              UNION {ImportersOf(id) : id \in sym_answer.changed}

\* The cache holds one id unchanged, one with another digest and one the
\* graph lacks; only the second is returned.
C33_Witness ==
    /\ sym_answer # NoSymbolCall
    /\ sym_answer.op = "get_changed_symbols"
    /\ SymbolId("P", "gone") \in DOMAIN sym_answer.cache
    /\ \E q \in ExportedPairs : /\ q[1] \in DOMAIN sym_answer.cache
                                /\ sym_answer.cache[q[1]] # q[2]
                                /\ sym_answer.result = <<q[1]>>

\* The consumers of a changed id are returned.
C33_WitnessAffected ==
    /\ sym_answer # NoSymbolCall
    /\ sym_answer.op = "get_affected_files"
    /\ sym_answer.result = {3}
    /\ Cardinality(sym_answer.changed) = 2

\* C34 For every built graph, also one where two files of a package export
\* one name with different bodies, get_changed_symbols of the cache made of
\* the graph is empty.
C34_Original ==
    sym_answer # NoSymbolCall /\ sym_answer.op = "get_changed_symbols"
        /\ sym_answer.cache = to_cache(sym_graph) =>
            sym_answer.result = <<>>

\* Two files of P export f with different bodies, and f is reported as
\* changed against the cache of the graph itself.
SameNameReportedChanged ==
    /\ sym_answer # NoSymbolCall
    /\ sym_answer.op = "get_changed_symbols"
    /\ sym_answer.cache = to_cache(sym_graph)
    /\ sym_graph.exports[1] # <<>> /\ sym_graph.exports[2] # <<>>
    /\ sym_graph.exports[1][1].name = sym_graph.exports[2][1].name
    /\ sym_graph.exports[1][1].hash # sym_graph.exports[2][1].hash
    /\ sym_answer.result = <<SymbolId("P", "f")>>

\* Against its own cache a graph reports nothing when no id has two
\* digests.
OwnCacheCleanForUniqueIds ==
    sym_answer # NoSymbolCall /\ sym_answer.op = "get_changed_symbols"
        /\ sym_answer.cache = to_cache(sym_graph)
        /\ (\A q1, q2 \in ExportedPairs : q1[1] = q2[1] => q1 = q2) =>
            sym_answer.result = <<>>

\* Whether the tree of the file has a default import from the package.
HasDefaultImport(file, package) ==
    \E i \in 1..Len(sym_sources[file]) :
        /\ sym_sources[file][i] \in ImportNodes
        /\ sym_sources[file][i].source[2] = package
        /\ \E j \in 1..Len(sym_sources[file][i].clause) :
               sym_sources[file][i].clause[j].kind = "identifier"

\* C35 A default import of a package P in a file F is filed in the
\* consumer index under the id of P's default export, so a change of the
\* default export of P reports F as affected.
C35_Original ==
    sym_graph # <<>> =>
        \A file \in SymFiles :
            HasDefaultImport(file, "P") =>
                /\ SymbolId("P", "default") \in DOMAIN sym_graph.consumers
                /\ file \in sym_graph.consumers[SymbolId("P", "default")]
                /\ file \in get_affected_files(sym_graph,
                                               {SymbolId("P", "default")})

\* P has a default export, the file 3 imports it as Lib, and the change of
\* the default export of P affects no file.
DefaultImportNotAffected ==
    /\ sym_answer # NoSymbolCall
    /\ sym_answer.op = "get_affected_files"
    /\ sym_answer.changed = {SymbolId("P", "default")}
    /\ \E i \in 1..Len(sym_graph.exports[1]) :
           sym_graph.exports[1][i].name = "default"
    /\ HasDefaultImport(3, "P")
    /\ sym_answer.result = {}
    /\ 3 \in sym_graph.consumers[SymbolId("P", "Lib")]

\* A default import is filed under the local identifier of the import.
DefaultImportUnderLocalName ==
    sym_graph # <<>> =>
        \A file \in SymFiles :
            HasDefaultImport(file, "P") =>
                /\ SymbolId("P", "default") \notin DOMAIN sym_graph.consumers
                /\ file \in sym_graph.consumers[SymbolId("P", "Lib")]

(***************************************************************************)
(* The thunks started and the results collected by Scheduler::execute.     *)
(***************************************************************************)

\* C36 The thunk of an input task is invoked at most once, also when its
\* name is spawned several times while it waits for a permit: a thunk
\* starts only for a task still in the pending map, which it leaves at that
\* step, and the job of a name only moves on from running to sending to
\* done.
C36_ThunkOnce ==
    /\ [][\A t \in Names :
            job'[t] # job[t] =>
                /\ <<job[t], job'[t]>> \in {<<"none", "running">>,
                                            <<"running", "send">>,
                                            <<"send", "done">>}
                /\ job'[t] = "running" =>
                      t \in pending_tasks /\ t \notin pending_tasks']_vars
    /\ [](\A t \in Names : job[t] # "none" => t \notin pending_tasks)

\* The thunk of a task has run while another job spawned for the same name
\* still waits for a permit.
C36_Witness ==
    \E t \in Names :
        /\ job[t] = "done"
        /\ handles[t].acquire > 0
        /\ semaphore > 0

\* C37 The results hold at most one entry per task name, every entry names
\* an input task, and under fail-fast at most one entry is Failed, which is
\* the last one.
C37_Results ==
    /\ \A i, j \in 1..Len(results) :
          results[i].name = results[j].name => i = j
    /\ \A i \in 1..Len(results) : results[i].name \in Names
    /\ fail_fast =>
          \A i \in 1..Len(results) :
              results[i].status = "Failed" => i = Len(results)

\* execute has returned under fail-fast a Completed result followed by the
\* Failed one, while the result of a third task was left in the channel.
C37_Witness ==
    /\ fail_fast /\ pc = "returned"
    /\ Len(results) = 2
    /\ results[1].status = "Completed"
    /\ results[2].status = "Failed"
    /\ chan # <<>>

(***************************************************************************)
(* Fail-fast on an input of independent tasks.                             *)
(***************************************************************************)

\* Scheduler::new(1).fail_fast(true) and WideTasks tasks with distinct names
\* and no dependencies.
SchedWideInit ==
    /\ concurrency = 1
    /\ fail_fast = TRUE
    /\ dep_map = [t \in 1..WideTasks |-> {}]
    /\ task_count = WideTasks
    /\ semaphore = 0
    /\ chan = <<>>
    /\ completed = {}
    /\ failed = FALSE
    /\ pending_tasks = {}
    /\ handles = [t \in DOMAIN dep_map |-> NoHandles]
    /\ job = [t \in DOMAIN dep_map |-> "none"]
    /\ status = [t \in DOMAIN dep_map |-> "Pending"]
    /\ results = <<>>
    /\ received = 0
    /\ pc = "call"
    /\ GraphIdle /\ CacheIdle /\ RunIdle /\ LaterIdle

SchedWideFairness ==
    /\ WF_vars(ExecuteStart)
    /\ WF_vars(Recv)
    /\ WF_vars(Dispatch)
    /\ WF_vars(Join)
    /\ \A t \in 1..WideTasks :
          /\ WF_vars(t \in Names /\ JobCheck(t))
          /\ WF_vars(t \in Names /\ JobCancel(t))
          /\ SF_vars(t \in Names /\ JobAcquire(t))
          /\ WF_vars(t \in Names /\ ThunkReturn(t))
          /\ WF_vars(t \in Names /\ JobSend(t))

SchedWideSpec == SchedWideInit /\ [][SchedNext]_vars /\ SchedWideFairness

\* C38 (as stated) With fail-fast, for tasks whose dependencies are acyclic
\* and present, execute eventually returns under every interleaving, also
\* when a task fails: no spawned job stays blocked for ever on the permit
\* or on sending its result once the collector has stopped receiving.
C38_Original ==
    (fail_fast /\ DepsPresentAcyclic) => <>(pc = "returned")

\* The collector has left its loop after a failure, the channel is full and
\* a job that found the flag set waits to send Cancelled: nobody will ever
\* receive, and the join waits for that job.
BlockedOnFullChannel ==
    /\ fail_fast /\ failed
    /\ pc = "join"
    /\ ~CanSend
    /\ \E t \in Names : handles[t].cancel > 0

\* With at most three tasks of distinct names and a permit, execute returns
\* under fail-fast whatever fails.
ReturnsUpToThreeTasks ==
    (fail_fast /\ DepsPresentAcyclic /\ concurrency >= 1
        /\ task_count = Cardinality(Names))
    => <>(pc = "returned")

(***************************************************************************)
(* The output of a command that failed, in the local cache.                *)
(***************************************************************************)

\* C39 A run stores the captured output in L1 whatever the exit code of the
\* command, and a run that finds an entry under its CacheKey replays it
\* without executing the command, also when the stored exit code is not 0.
C39_StoredWhateverExitCode ==
    /\ [][(run.pc = "running" /\ run'.pc = "finish") =>
             /\ run'.output \in ExecOutputs
             /\ db'[run.key] = to_vec([run'.output EXCEPT !.hash = run.key])]_vars
    /\ [](run.pc = "finish" =>
             /\ get_cached(run.key).some
             /\ get_cached(run.key).value.exit_code = run.output.exit_code
             /\ get_cached(run.key).value.stdout = run.output.stdout
             /\ get_cached(run.key).value.stderr = run.output.stderr)
    /\ [][(run.pc = "l1" /\ get_cached(run.key).some) =>
             /\ outcome' = Outcome("replayed", run.hash, run.later,
                                   get_cached(run.key).value)
             /\ run' = NoRun
             /\ execs' = execs /\ db' = db]_vars

\* The command was executed once on this machine and exited with 1, no
\* remote cache is in use, and the run after it under the same key was an
\* L1 hit that replayed the output with its exit code 1.
C39_Witness ==
    /\ run.pc = "idle"
    /\ ~cloud_enabled
    /\ outcome.kind = "replayed"
    /\ outcome.exit_code = 1
    /\ tier_log = <<Event("L1", "hit")>>
    /\ execs[outcome.hash] = 1
    /\ captured[outcome.hash] # NoOutput
    /\ captured[outcome.hash].exit_code = 1
    /\ outcome.stdout = captured[outcome.hash].stdout

(***************************************************************************)
(* What the global hash is made of.                                        *)
(***************************************************************************)

\* The contents of the files of a root, in the order of their paths.
SortedContents(files) ==
    LET paths == SortedSeq({p \in Paths : files[p] # NoFile})
    IN  [i \in 1..Len(paths) |-> files[paths[i]]]

\* The digests of the files of a root, in the order of their paths.
SortedDigests(files) ==
    [i \in 1..Len(SortedContents(files)) |->
        Blake3Hex(SortedContents(files)[i])]

\* C40 The global hash is made of the file digests alone, in path order:
\* two roots whose files have the same contents in the order of their
\* paths, whatever the paths are, have the same global hash, and two roots
\* whose path-sorted digest sequences differ feed different bytes to the
\* final hasher.
C40_DigestsAlone ==
    \A i, j \in 1..Len(hash_log) :
        /\ SortedContents(hash_log[i].files) = SortedContents(hash_log[j].files)
              => hash_log[i].hash = hash_log[j].hash
        /\ SortedDigests(hash_log[i].files) # SortedDigests(hash_log[j].files)
              => hash_log[i].input # hash_log[j].input

\* Two calls on roots of two files with different contents, the files of
\* the second root being those of the first under other paths in the same
\* order.
C40_Witness ==
    /\ Len(hash_log) = 2
    /\ hash_log[1].files # hash_log[2].files
    /\ {p \in Paths : hash_log[1].files[p] # NoFile} #
          {p \in Paths : hash_log[2].files[p] # NoFile}
    /\ Len(SortedContents(hash_log[1].files)) = 2
    /\ SortedContents(hash_log[1].files)[1] #
          SortedContents(hash_log[1].files)[2]
    /\ SortedContents(hash_log[1].files) = SortedContents(hash_log[2].files)
    /\ hash_log[1].hash = hash_log[2].hash

\* Two calls on roots with the same files in the other order of contents.
C40_WitnessDiffer ==
    /\ Len(hash_log) = 2
    /\ Len(SortedContents(hash_log[1].files)) = 2
    /\ SortedContents(hash_log[2].files) =
          Reverse(SortedContents(hash_log[1].files))
    /\ hash_log[1].input # hash_log[2].input

====
